---- MODULE Spec2Model ----
(***************************************************************************)
(* Model of the tutoring-marketplace backend (src/backend): the token      *)
(* service (app/core/auth.py), the login guard and the other /auth         *)
(* endpoints (app/api/auth.py), appointments (app/api/appointments.py)     *)
(* and teacher reviews (app/api/teachers.py, app/db/crud.py).              *)
(*                                                                         *)
(* Time is counted in whole seconds, the resolution of a JWT "exp" claim.  *)
(* A row of a table is a record; a table maps the primary key to the row.  *)
(***************************************************************************)
EXTENDS Integers, FiniteSets, Sequences, TLC

VARIABLES
    now,            \* the clock: datetime.utcnow() / datetime.now(), in seconds
    sameKeys,       \* deployment: SECRET_KEY and REFRESH_SECRET_KEY hold the same value
    users,          \* table "users"
    appointments,   \* table "appointments"
    reviews,        \* table "reviews"
    score_records,  \* table "score_records"
    wallet,         \* tokens the clients hold, each with the time it was issued
    resp,           \* the last request and its response
    req,            \* per worker: the request it is in the middle of
    jumps,          \* how often the clock has been advanced
    keeps,          \* the kinds of token the clients keep
    obs,            \* per user: history of the lockout scenario (observer only)
    hist            \* per refresh token: history of its use (observer only)

vars == <<now, sameKeys, users, appointments, reviews, score_records, wallet, resp, req,
          jumps, keeps, obs, hist>>

-----------------------------------------------------------------------------
(* Program constants *)

ACCESS_TOKEN_EXPIRE_MINUTES == 30
REFRESH_TOKEN_EXPIRE_DAYS == 7
RESET_TOKEN_EXPIRE_HOURS == 1
MAX_LOGIN_ATTEMPTS == 5
LOCKOUT_DURATION_MINUTES == 15

minutes(n) == n * 60
hours(n) == n * 3600
days(n) == n * 86400

(* Python's None: for a string, for a datetime column, for an object *)
None == "None"
NoTime == 0 - 1
Null == [null |-> TRUE]

-----------------------------------------------------------------------------
(* Bounds of the model *)

MaxWallet == 1          \* tokens the clients keep at a time
MaxUsers == 2           \* rows of "users"
MaxJumps == 2           \* how often the clock is advanced in one behaviour

Emails == {"a@x", "b@x"}
Passwords == {"Pw1", "Pw2"}
UserIds == {"u1", "u2", "u3"}
Roles == {"student", "teacher", "admin"}
ReviewIds == {"r1", "r2", "r3"}  \* primary keys of "reviews"
Overall == {4, 5}       \* "overall" stars of a review
ApptIds == {"a1", "a2"}  \* primary keys of "appointments"
Dates == {0}            \* "date" of a booking request, in days
Times == {0, 1, 2}       \* "time" of a booking request, in minutes of the day

-----------------------------------------------------------------------------
(* Token service: app/core/auth.py *)

\* jwt.encode(to_encode, key): the claims, bound to the key that signed them
jwt_encode(to_encode, key) == [claims |-> to_encode, key |-> key]

\* Whether a signature made with key `signed` verifies under key `expected`
SignatureVerifies(signed, expected) ==
    \/ signed = expected
    \/ sameKeys /\ {signed, expected} \subseteq {"SECRET_KEY", "REFRESH_SECRET_KEY"}

\* jwt.decode letting a token pass for one more second after its "exp"
jwt_decode_late(token, key, t) ==
    IF ~SignatureVerifies(token.key, key) THEN Null
    ELSE IF token.claims.exp + 1 < t THEN Null
    ELSE token.claims

\* jwt.decode(token, key): the claims, or JWTError (None) on a bad signature or
\* an "exp" that lies before the current second
jwt_decode(token, key, t) ==
    IF ~SignatureVerifies(token.key, key) THEN Null
    ELSE IF token.claims.exp < t THEN Null
    ELSE token.claims

\* payload.get(k)
PayloadGet(payload, k) == IF k \in DOMAIN payload THEN payload[k] ELSE None

create_access_token(data, t) ==
    jwt_encode([sub |-> data.sub, email |-> data.email, role |-> data.role,
                exp |-> t + minutes(ACCESS_TOKEN_EXPIRE_MINUTES), type |-> "access"],
               "SECRET_KEY")

create_refresh_token(data, t) ==
    jwt_encode([sub |-> data.sub, email |-> data.email, role |-> data.role,
                exp |-> t + days(REFRESH_TOKEN_EXPIRE_DAYS), type |-> "refresh"],
               "REFRESH_SECRET_KEY")

create_password_reset_token(email, t) ==
    jwt_encode([email |-> email, exp |-> t + hours(RESET_TOKEN_EXPIRE_HOURS),
                type |-> "password_reset"],
               "SECRET_KEY")

TokenData(payload) ==
    [user_id |-> PayloadGet(payload, "sub"), email |-> PayloadGet(payload, "email"),
     role |-> PayloadGet(payload, "role"), exp |-> PayloadGet(payload, "exp")]

verify_access_token(token, t) ==
    LET payload == jwt_decode(token, "SECRET_KEY", t) IN
    IF payload = Null THEN Null
    ELSE IF PayloadGet(payload, "type") # "access" THEN Null
    ELSE IF PayloadGet(payload, "sub") = None \/ PayloadGet(payload, "email") = None
         THEN Null
    ELSE TokenData(payload)

\* verify_refresh_token without the check of the type tag
verify_refresh_token_untyped(token, t) ==
    LET payload == jwt_decode(token, "REFRESH_SECRET_KEY", t) IN
    IF payload = Null THEN Null
    ELSE IF PayloadGet(payload, "sub") = None \/ PayloadGet(payload, "email") = None
         THEN Null
    ELSE TokenData(payload)

verify_refresh_token(token, t) ==
    LET payload == jwt_decode(token, "REFRESH_SECRET_KEY", t) IN
    IF payload = Null THEN Null
    ELSE IF PayloadGet(payload, "type") # "refresh" THEN Null
    ELSE IF PayloadGet(payload, "sub") = None \/ PayloadGet(payload, "email") = None
         THEN Null
    ELSE TokenData(payload)

verify_password_reset_token(token, t) ==
    LET payload == jwt_decode(token, "SECRET_KEY", t) IN
    IF payload = Null THEN None
    ELSE IF PayloadGet(payload, "type") # "password_reset" THEN None
    ELSE PayloadGet(payload, "email")

generate_tokens(user, t) ==
    LET token_data == [sub |-> user.id, email |-> user.email, role |-> user.role] IN
    [access_token |-> create_access_token(token_data, t),
     refresh_token |-> create_refresh_token(token_data, t),
     token_type |-> "bearer",
     expires_in |-> ACCESS_TOKEN_EXPIRE_MINUTES * 60]

-----------------------------------------------------------------------------
(* Password hasher: app/core/auth.py *)

get_password_hash(password) == <<"bcrypt", password>>

verify_password(plain_password, hashed_password) ==
    hashed_password = <<"bcrypt", plain_password>>

-----------------------------------------------------------------------------
(* Persistence: app/models/database.py, app/db/crud.py *)

\* db.add(row) or an UPDATE of the row with primary key id
Put(tbl, id, row) == [i \in DOMAIN tbl \cup {id} |-> IF i = id THEN row ELSE tbl[i]]

\* uuid4(): a primary key no row has
FreshId(tbl, ids) == CHOOSE i \in ids : i \notin DOMAIN tbl

\* User(...): the columns with their defaults
NewUser(id, email, role, hashed_password) ==
    [id |-> id, email |-> email, role |-> role, hashed_password |-> hashed_password,
     is_active |-> TRUE, login_attempts |-> 0, locked_until |-> NoTime,
     last_login |-> NoTime, rating |-> 0, reviews_count |-> 0]

\* db.query(User).filter(User.email == email): the keys of the matching rows
get_user_by_email(tbl, email) == {id \in DOMAIN tbl : tbl[id].email = email}

\* INSERT into a users table whose email column has no UNIQUE index
users_insert_no_unique(tbl, id, row) == [ok |-> TRUE, tbl |-> Put(tbl, id, row)]

\* INSERT into users and commit: email is UNIQUE, a second row with the same
\* email raises IntegrityError
users_insert(tbl, id, row) ==
    IF \E i \in DOMAIN tbl : tbl[i].email = row.email
    THEN [ok |-> FALSE, tbl |-> tbl]
    ELSE [ok |-> TRUE, tbl |-> Put(tbl, id, row)]

-----------------------------------------------------------------------------
(* What the clients do with the tokens a response carries *)

\* A token held, with when and for whom it was issued
Entry(tok, t, owner) == [tok |-> tok, iat |-> t, owner |-> owner]

\* The clients keep the tokens they hold and any of those just received
ClientKeeps(newEntries) ==
    wallet' \in {wallet \cup s :
                   s \in {x \in SUBSET {e \in newEntries : e.tok.claims.type \in keeps} :
                             Cardinality(wallet \cup x) <= MaxWallet}}

\* A token signed by somebody else
Forged(type) ==
    jwt_encode([sub |-> "u1", email |-> "a@x", role |-> "admin",
                exp |-> days(365), type |-> type], "ATTACKER_KEY")

Presentable(type) == {e.tok : e \in wallet} \cup {Forged(type)}

-----------------------------------------------------------------------------
(* Observer of the lockout scenario, per account.                            *)
(* n: the wrong-password logins made in a row since the account last was     *)
(*    unlocked with no failure counted; n = 5 says the fifth has been made.  *)
(* tried: since the fifth, a login with the correct password was made before *)
(*    locked_until.                                                          *)
(* back: the last login was the first correct one after locked_until passed. *)
(* unlocked: the last request for the account was a password reset that      *)
(*    succeeded while the account was locked.                                *)

ObsStart == [n |-> 0, tried |-> FALSE, back |-> FALSE, unlocked |-> FALSE]

ObsLogin(o, user, password, t) ==
    LET correct == verify_password(password, user.hashed_password) IN
    IF o.n = 5 /\ t < user.locked_until
    THEN [o EXCEPT !.tried = o.tried \/ correct]
    ELSE IF correct
    THEN [n |-> 0, tried |-> o.n = 5 /\ o.tried /\ t > user.locked_until,
          back |-> o.n = 5 /\ t > user.locked_until, unlocked |-> FALSE]
    ELSE [n |-> IF o.n = 5 THEN 1 ELSE o.n + 1, tried |-> FALSE, back |-> FALSE,
          unlocked |-> FALSE]

ObsReset(user, t) == [ObsStart EXCEPT !.unlocked = user.locked_until > t]

(* Observer of the refresh tokens.                                           *)
(* used: the tokens /auth/refresh has accepted.                              *)
(* out: those of them whose user has logged out since.                       *)
(* again: those of them /auth/refresh has accepted once more after that.     *)

HistStart == [used |-> {}, out |-> {}, again |-> {}]

HistRefresh(h, token, ok) ==
    IF ~ok THEN h
    ELSE [h EXCEPT !.used = @ \cup {token},
                   !.again = @ \cup ({token} \cap h.out)]


-----------------------------------------------------------------------------
(* Login guard and /auth endpoints: app/api/auth.py *)

\* AuthService.create_user: the existence check, then the insert
create_user(tbl, id, user_data) ==
    IF get_user_by_email(tbl, user_data.email) # {}
    THEN [status |-> 400, tbl |-> tbl, user_id |-> None]
    ELSE LET ins == users_insert(tbl, id,
                        NewUser(id, user_data.email, user_data.role,
                                get_password_hash(user_data.password)))
         IN IF ins.ok THEN [status |-> 200, tbl |-> ins.tbl, user_id |-> id]
            ELSE [status |-> 400, tbl |-> tbl, user_id |-> None]

\* UserRegister: the request body passes validation when its role is a UserRole
UserRegisterValid(user_data) == user_data.role \in Roles

\* POST /auth/register
register(email, password, role) ==
    /\ LET user_data == [email |-> email, password |-> password, role |-> role] IN
       IF ~UserRegisterValid(user_data)
       THEN /\ resp' = [op |-> "register", email |-> email, role |-> role,
                        status |-> 422, user_id |-> None]
            /\ UNCHANGED users
       ELSE /\ get_user_by_email(users, email) = {}
                  => Cardinality(DOMAIN users) < MaxUsers
            /\ LET out == create_user(users, FreshId(users, UserIds), user_data)
               IN /\ users' = out.tbl
                  /\ resp' = [op |-> "register", email |-> email, role |-> role,
                              status |-> out.status, user_id |-> out.user_id]
    /\ UNCHANGED <<now, jumps, keeps, sameKeys, score_records, hist, appointments, reviews, wallet, req, obs>>

\* authenticate_user locking only after a sixth failure (> for >=)
authenticate_user_late(user, password, t) ==
    IF user.locked_until # NoTime /\ user.locked_until > t
    THEN [ret |-> "HTTP_423_LOCKED", row |-> user]
    ELSE IF ~verify_password(password, user.hashed_password)
    THEN LET n == user.login_attempts + 1 IN
         IF n > MAX_LOGIN_ATTEMPTS
         THEN [ret |-> "HTTP_423_LOCKED",
               row |-> [user EXCEPT !.locked_until = t + minutes(LOCKOUT_DURATION_MINUTES),
                                    !.login_attempts = 0]]
         ELSE [ret |-> "None", row |-> [user EXCEPT !.login_attempts = n]]
    ELSE [ret |-> "user",
          row |-> [user EXCEPT !.login_attempts = 0, !.last_login = t,
                               !.locked_until = NoTime]]

\* authenticate_user leaving an expired locked_until stored on success
authenticate_user_keeps_lock(user, password, t) ==
    IF user.locked_until # NoTime /\ user.locked_until > t
    THEN [ret |-> "HTTP_423_LOCKED", row |-> user]
    ELSE IF ~verify_password(password, user.hashed_password)
    THEN LET n == user.login_attempts + 1 IN
         IF n >= MAX_LOGIN_ATTEMPTS
         THEN [ret |-> "HTTP_423_LOCKED",
               row |-> [user EXCEPT !.locked_until = t + minutes(LOCKOUT_DURATION_MINUTES),
                                    !.login_attempts = 0]]
         ELSE [ret |-> "None", row |-> [user EXCEPT !.login_attempts = n]]
    ELSE [ret |-> "user",
          row |-> [user EXCEPT !.login_attempts = 0, !.last_login = t]]

\* authenticate_user looking at the password before it looks at the lock
authenticate_user_password_first(user, password, t) ==
    IF ~verify_password(password, user.hashed_password)
    THEN LET n == user.login_attempts + 1 IN
         IF n >= MAX_LOGIN_ATTEMPTS
         THEN [ret |-> "HTTP_423_LOCKED",
               row |-> [user EXCEPT !.locked_until = t + minutes(LOCKOUT_DURATION_MINUTES),
                                    !.login_attempts = 0]]
         ELSE [ret |-> IF user.locked_until # NoTime /\ user.locked_until > t
                       THEN "HTTP_423_LOCKED" ELSE "None",
               row |-> [user EXCEPT !.login_attempts = n]]
    ELSE IF user.locked_until # NoTime /\ user.locked_until > t
    THEN [ret |-> "HTTP_423_LOCKED", row |-> user]
    ELSE [ret |-> "user",
          row |-> [user EXCEPT !.login_attempts = 0, !.last_login = t,
                               !.locked_until = NoTime]]

\* authenticate_user returning None for a wrong password without the commit
authenticate_user_no_commit(user, password, t) ==
    IF user.locked_until # NoTime /\ user.locked_until > t
    THEN [ret |-> "HTTP_423_LOCKED", row |-> user]
    ELSE IF ~verify_password(password, user.hashed_password)
    THEN LET n == user.login_attempts + 1 IN
         IF n >= MAX_LOGIN_ATTEMPTS
         THEN [ret |-> "HTTP_423_LOCKED",
               row |-> [user EXCEPT !.locked_until = t + minutes(LOCKOUT_DURATION_MINUTES),
                                    !.login_attempts = 0]]
         ELSE [ret |-> "None", row |-> user]
    ELSE [ret |-> "user",
          row |-> [user EXCEPT !.login_attempts = 0, !.last_login = t,
                               !.locked_until = NoTime]]

\* authenticate_user setting the lock and leaving the counter at the threshold
authenticate_user_keeps_count(user, password, t) ==
    IF user.locked_until # NoTime /\ user.locked_until > t
    THEN [ret |-> "HTTP_423_LOCKED", row |-> user]
    ELSE IF ~verify_password(password, user.hashed_password)
    THEN LET n == user.login_attempts + 1 IN
         IF n >= MAX_LOGIN_ATTEMPTS
         THEN [ret |-> "HTTP_423_LOCKED",
               row |-> [user EXCEPT !.locked_until = t + minutes(LOCKOUT_DURATION_MINUTES),
                                    !.login_attempts = n]]
         ELSE [ret |-> "None", row |-> [user EXCEPT !.login_attempts = n]]
    ELSE [ret |-> "user",
          row |-> [user EXCEPT !.login_attempts = 0, !.last_login = t,
                               !.locked_until = NoTime]]

\* AuthService.authenticate_user, from the row found: what it returns or
\* raises, and the row it commits
authenticate_user(user, password, t) ==
    IF user.locked_until # NoTime /\ user.locked_until > t
    THEN [ret |-> "HTTP_423_LOCKED", row |-> user]
    ELSE IF ~verify_password(password, user.hashed_password)
    THEN LET n == user.login_attempts + 1 IN
         IF n >= MAX_LOGIN_ATTEMPTS
         THEN [ret |-> "HTTP_423_LOCKED",
               row |-> [user EXCEPT !.locked_until = t + minutes(LOCKOUT_DURATION_MINUTES),
                                    !.login_attempts = 0]]
         ELSE [ret |-> "None", row |-> [user EXCEPT !.login_attempts = n]]
    ELSE [ret |-> "user",
          row |-> [user EXCEPT !.login_attempts = 0, !.last_login = t,
                               !.locked_until = NoTime]]

LoginStatus(out) ==
    IF out.ret = "HTTP_423_LOCKED" THEN 423
    ELSE IF out.ret = "None" THEN 401
    ELSE IF ~out.row.is_active THEN 401
    ELSE 200

\* POST /auth/login
login(email, password) ==
    /\ LET found == get_user_by_email(users, email) IN
       IF found = {}
       THEN /\ resp' = [op |-> "login", email |-> email, password |-> password,
                        auth |-> "None", status |-> 401, tokens |-> Null]
            /\ UNCHANGED <<users, wallet, obs>>
       ELSE \E id \in found :
            LET out == authenticate_user(users[id], password, now)
                status == LoginStatus(out)
                tokens == IF status = 200 THEN generate_tokens(out.row, now) ELSE Null
            IN /\ users' = Put(users, id, out.row)
               /\ resp' = [op |-> "login", email |-> email, password |-> password,
                           auth |-> out.ret, status |-> status, tokens |-> tokens]
               /\ ClientKeeps(IF status = 200
                              THEN {Entry(tokens.access_token, now, id),
                                    Entry(tokens.refresh_token, now, id)}
                              ELSE {})
               /\ obs' = [obs EXCEPT ![id] = ObsLogin(obs[id], users[id], password, now)]
    /\ UNCHANGED <<now, jumps, keeps, sameKeys, score_records, hist, appointments, reviews, req>>

\* POST /auth/refresh
\* refresh_token without the look at user.is_active
refresh_token_any_user(token) ==
    /\ LET token_data == verify_refresh_token(token, now)
           found == IF token_data = Null THEN {}
                    ELSE {id \in DOMAIN users : id = token_data.user_id}
           ok == found # {}
           user == users[CHOOSE id \in found : TRUE]
           tokens == IF ok THEN generate_tokens(user, now) ELSE Null
       IN /\ resp' = [op |-> "refresh", token |-> token,
                      status |-> IF ok THEN 200 ELSE 401, tokens |-> tokens]
          /\ ClientKeeps(IF ok THEN {Entry(tokens.access_token, now, user.id),
                                     Entry(tokens.refresh_token, now, user.id)}
                         ELSE {})
          /\ hist' = HistRefresh(hist, token, ok)
    /\ UNCHANGED <<now, jumps, keeps, sameKeys, score_records, users, appointments, reviews, req, obs>>

refresh_token(token) ==
    /\ LET token_data == verify_refresh_token(token, now)
           found == IF token_data = Null THEN {}
                    ELSE {id \in DOMAIN users : id = token_data.user_id}
           ok == \E id \in found : users[id].is_active
           user == users[CHOOSE id \in found : TRUE]
           tokens == IF ok THEN generate_tokens(user, now) ELSE Null
       IN /\ resp' = [op |-> "refresh", token |-> token,
                      status |-> IF ok THEN 200 ELSE 401, tokens |-> tokens]
          /\ ClientKeeps(IF ok THEN {Entry(tokens.access_token, now, user.id),
                                     Entry(tokens.refresh_token, now, user.id)}
                         ELSE {})
          /\ hist' = HistRefresh(hist, token, ok)
    /\ UNCHANGED <<now, jumps, keeps, sameKeys, score_records, users, appointments, reviews, req, obs>>

\* get_current_user without the look at user.is_active
get_current_user_any_user(token, t) ==
    LET token_data == verify_access_token(token, t) IN
    IF token_data = Null THEN None
    ELSE IF token_data.user_id \notin DOMAIN users THEN None
    ELSE token_data.user_id

\* AuthService.get_current_user: the key of the user, or None for a 401
get_current_user(token, t) ==
    LET token_data == verify_access_token(token, t) IN
    IF token_data = Null THEN None
    ELSE IF token_data.user_id \notin DOMAIN users THEN None
    ELSE IF ~users[token_data.user_id].is_active THEN None
    ELSE token_data.user_id

\* logout switching the account off as a way of ending its sessions
logout_deactivates(token) ==
    /\ resp' = [op |-> "logout", token |-> token,
                status |-> IF get_current_user(token, now) = None THEN 401 ELSE 200]
    /\ LET id == get_current_user(token, now) IN
       hist' = IF id = None THEN hist
               ELSE [hist EXCEPT !.out = @ \cup {used \in hist.used :
                                                    used.claims.sub = id}]
    /\ users' = [id \in DOMAIN users |->
                    IF id = get_current_user(token, now)
                    THEN [users[id] EXCEPT !.is_active = FALSE] ELSE users[id]]
    /\ UNCHANGED <<now, jumps, keeps, sameKeys, score_records, appointments, reviews, wallet, req, obs>>

\* POST /auth/logout
logout(token) ==
    /\ resp' = [op |-> "logout", token |-> token,
                status |-> IF get_current_user(token, now) = None THEN 401 ELSE 200]
    /\ LET id == get_current_user(token, now) IN
       hist' = IF id = None THEN hist
               ELSE [hist EXCEPT !.out = @ \cup {used \in hist.used :
                                                    used.claims.sub = id}]
    /\ UNCHANGED <<now, jumps, keeps, sameKeys, score_records, users, appointments, reviews, wallet, req, obs>>

\* request_password_reset: the APIResponse it returns
PasswordResetResponse(tbl, email, t) ==
    LET found == get_user_by_email(tbl, email) IN
    IF found = {}
    THEN [success |-> TRUE, message |-> "sent if the email exists", data |-> Null]
    ELSE LET user == tbl[CHOOSE id \in found : TRUE] IN
         [success |-> TRUE, message |-> "reset token generated",
          data |-> [reset_token |-> create_password_reset_token(user.email, t),
                    expires_in |-> 3600]]

\* POST /auth/request-password-reset
request_password_reset(email) ==
    /\ LET found == get_user_by_email(users, email) IN
       /\ resp' = [op |-> "request_password_reset", email |-> email]
                      @@ PasswordResetResponse(users, email, now)
       /\ IF found = {}
          THEN UNCHANGED wallet
          ELSE \E id \in found :
                  ClientKeeps({Entry(create_password_reset_token(users[id].email, now),
                                     now, id)})
    /\ UNCHANGED <<now, jumps, keeps, sameKeys, score_records, hist, users, appointments, reviews, req, obs>>

\* reset_password forgetting to lift the lock
ResetRow_keeps_lock(user, new_password) ==
    [user EXCEPT !.hashed_password = get_password_hash(new_password),
                 !.login_attempts = 0]

\* reset_password: the columns it writes before the commit
ResetRow(user, new_password) ==
    [user EXCEPT !.hashed_password = get_password_hash(new_password),
                 !.login_attempts = 0,
                 !.locked_until = NoTime]

\* POST /auth/reset-password
reset_password(token, new_password) ==
    /\ LET email == verify_password_reset_token(token, now)
           found == IF email = None THEN {} ELSE get_user_by_email(users, email)
       IN IF email = None \/ found = {}
          THEN /\ resp' = [op |-> "reset_password", token |-> token,
                           new_password |-> new_password,
                           status |-> IF email = None THEN 400 ELSE 404,
                           user_id |-> None]
               /\ UNCHANGED <<users, obs>>
          ELSE \E id \in found :
               /\ users' = Put(users, id, ResetRow(users[id], new_password))
               /\ resp' = [op |-> "reset_password", token |-> token,
                           new_password |-> new_password, status |-> 200, user_id |-> id]
               /\ obs' = [obs EXCEPT ![id] = ObsReset(users[id], now)]
    /\ UNCHANGED <<now, jumps, keeps, sameKeys, score_records, hist, appointments, reviews, wallet, req>>

\* PUT /auth/change-password
change_password(token, old_password, new_password) ==
    /\ LET id == get_current_user(token, now) IN
       IF id = None
       THEN /\ resp' = [op |-> "change_password", token |-> token, status |-> 401]
            /\ UNCHANGED users
       ELSE IF ~verify_password(old_password, users[id].hashed_password)
       THEN /\ resp' = [op |-> "change_password", token |-> token, status |-> 400]
            /\ UNCHANGED users
       ELSE /\ users' = Put(users, id,
                            [users[id] EXCEPT
                                !.hashed_password = get_password_hash(new_password)])
            /\ resp' = [op |-> "change_password", token |-> token, status |-> 200]
    /\ UNCHANGED <<now, jumps, keeps, sameKeys, score_records, hist, appointments, reviews, wallet, req, obs>>


-----------------------------------------------------------------------------
(* The clock *)

Deadlines ==
    ({users[id].locked_until : id \in DOMAIN users}
        \cup {e.tok.claims.exp : e \in wallet}
        \cup {appointments[id].appointment_time : id \in DOMAIN appointments}) \ {NoTime}

\* Time passes: to the second before a deadline, to the deadline, or to the
\* second after it
Tick ==
    /\ jumps < MaxJumps
    /\ \E t \in {d + k : d \in Deadlines, k \in {0 - 1, 0, 1}} :
          /\ t > now
          /\ now' = t
    /\ jumps' = jumps + 1
    /\ resp' = [op |-> "tick"]
    /\ UNCHANGED <<keeps, sameKeys, users, appointments, reviews, score_records, wallet,
                   req, obs, hist>>

-----------------------------------------------------------------------------
(* The service with its requests handled one at a time *)

EmptyTbl == [i \in {} |-> Null]
Workers == {"w1", "w2"}
Idle == [pc |-> "idle"]

\* init_auth_data.py: the seeded accounts
SeedUsers == [id \in {"u1"} |-> NewUser("u1", "a@x", "teacher", get_password_hash("Pw1"))]

InitCommon ==
    /\ now = 0
    /\ jumps = 0
    /\ hist = HistStart
    /\ users = SeedUsers
    /\ wallet = {}
    /\ resp = [op |-> "start"]
    /\ req = [w \in Workers |-> Idle]
    /\ obs = [id \in UserIds |-> ObsStart]

Init ==
    /\ InitCommon
    /\ sameKeys \in BOOLEAN
    /\ keeps = {"access", "refresh", "password_reset"}
    /\ appointments = EmptyTbl
    /\ reviews = EmptyTbl
    /\ score_records = EmptyTbl

Next ==
    \/ \E email \in Emails, password \in Passwords, role \in Roles :
          register(email, password, role)
    \/ \E email \in Emails, password \in Passwords : login(email, password)
    \/ \E token \in Presentable("refresh") : refresh_token(token)
    \/ \E token \in Presentable("access") : logout(token)
    \/ \E email \in Emails : request_password_reset(email)
    \/ \E token \in Presentable("password_reset"), new_password \in Passwords :
          reset_password(token, new_password)
    \/ \E token \in Presentable("access"), old_password, new_password \in Passwords :
          change_password(token, old_password, new_password)
    \/ Tick

Spec == Init /\ [][Next]_vars

-----------------------------------------------------------------------------
(* The login guard alone: one account, its logins and password changes *)

NextLock ==
    \/ \E email \in Emails, password \in Passwords : login(email, password)
    \/ \E email \in Emails : request_password_reset(email)
    \/ \E token \in Presentable("password_reset"), new_password \in Passwords :
          reset_password(token, new_password)
    \/ Tick

InitLock ==
    /\ InitCommon
    /\ sameKeys = FALSE
    /\ keeps = {"password_reset"}
    /\ appointments = EmptyTbl
    /\ reviews = EmptyTbl
    /\ score_records = EmptyTbl

SpecLock == InitLock /\ [][NextLock]_vars


-----------------------------------------------------------------------------
(* Properties of the login guard, under SpecLock *)

\* C1: for an account that starts unlocked with login_attempts = 0, the fifth
\* wrong-password login in a row (no successful login or password reset in
\* between) leaves locked_until in the future; every login made before
\* locked_until, correct password or not, answers 423 and issues no tokens;
\* the first correct-password login after locked_until has passed succeeds and
\* leaves login_attempts = 0.
C1_Lockout ==
    [][\A id \in DOMAIN users :
         LET user == users[id]
             isLogin == resp'.op = "login" /\ resp'.email = user.email
             correct == isLogin /\ verify_password(resp'.password, user.hashed_password)
         IN /\ (isLogin /\ obs[id].n = 4 /\ obs'[id].n = 5)
                  => users'[id].locked_until > now
            /\ (isLogin /\ obs[id].n = 5 /\ now < user.locked_until)
                  => /\ resp'.status = 423
                     /\ resp'.tokens = Null
                     /\ wallet' = wallet
            /\ (correct /\ obs[id].n = 5 /\ now > user.locked_until)
                  => /\ resp'.status = 200
                     /\ resp'.tokens # Null
                     /\ users'[id].login_attempts = 0]_vars

\* C1 witness: an account locked by five failures was refused with the correct
\* password during the lock and has logged in again after it
C1_Witness ==
    \E id \in DOMAIN users :
        /\ obs[id].back /\ obs[id].tried
        /\ resp.op = "login" /\ resp.status = 200
        /\ users[id].login_attempts = 0

\* C2: whenever authenticate_user returns the user, the committed row has
\* login_attempts = 0, locked_until = None and last_login = the time of the call
C2_SuccessResets ==
    (resp.op = "login" /\ resp.auth = "user")
        => \A id \in get_user_by_email(users, resp.email) :
              /\ users[id].login_attempts = 0
              /\ users[id].locked_until = NoTime
              /\ users[id].last_login = now

\* C2 witness: a successful login on an account whose expired lock was still
\* stored
C2_Witness ==
    /\ resp.op = "login" /\ resp.auth = "user"
    /\ \E id \in get_user_by_email(users, resp.email) : obs[id].back

\* The reset token presented is one the service did not sign, or one it issued
\* more than an hour ago
BadResetToken(token) ==
    \/ token = Forged("password_reset")
    \/ \E e \in wallet : e.tok = token /\ now > e.iat + hours(RESET_TOKEN_EXPIRE_HOURS)

\* C10: a reset-password that succeeds leaves login_attempts = 0 and
\* locked_until = None; the login that follows it succeeds with the new password,
\* also when the account was locked at the reset, and fails with any other
\* password; a reset-password with an invalid or expired token changes nothing.
C10_ResetClearsLock ==
    [][/\ (resp'.op = "reset_password" /\ resp'.status = 200)
            => /\ users'[resp'.user_id].login_attempts = 0
               /\ users'[resp'.user_id].locked_until = NoTime
       /\ (/\ resp.op = "reset_password" /\ resp.status = 200
           /\ resp'.op = "login" /\ resp'.email = users[resp.user_id].email)
            => IF resp'.password = resp.new_password
               THEN resp'.status = 200 /\ resp'.tokens # Null
               ELSE resp'.status = 401 /\ resp'.tokens = Null
       /\ (resp'.op = "reset_password" /\ BadResetToken(resp'.token))
            => resp'.status = 400 /\ users' = users]_vars

\* C10 witness: a reset-password has succeeded on an account that was locked
C10_Witness ==
    /\ resp.op = "reset_password" /\ resp.status = 200
    /\ obs[resp.user_id].unlocked
    /\ users[resp.user_id].locked_until = NoTime


-----------------------------------------------------------------------------
(* The token service alone: tokens are issued for the accounts and every    *)
(* verifier is applied to them as time passes                                *)

\* debug_auth.py, test_teacher_auth: generate_tokens(user)
issue_tokens(id) ==
    /\ LET tokens == generate_tokens(users[id], now) IN
       /\ resp' = [op |-> "generate_tokens", user_id |-> id, tokens |-> tokens]
       /\ ClientKeeps({Entry(tokens.access_token, now, id),
                       Entry(tokens.refresh_token, now, id)})
    /\ UNCHANGED <<now, jumps, keeps, sameKeys, score_records, hist, users, appointments, reviews, req, obs>>

\* A token that was issued is given to each of the three verifiers
verify_token(e) ==
    /\ resp' = [op |-> "verify", entry |-> e,
                as_access |-> verify_access_token(e.tok, now),
                as_refresh |-> verify_refresh_token(e.tok, now),
                as_reset |-> verify_password_reset_token(e.tok, now)]
    /\ UNCHANGED <<now, jumps, keeps, sameKeys, score_records, hist, users, appointments, reviews, wallet,
                   req, obs>>

InitTok ==
    /\ now = 0
    /\ jumps = 0
    /\ hist = HistStart
    /\ sameKeys \in BOOLEAN
    /\ \E r1 \in Roles, r2 \in Roles :
          users = [id \in {"u1", "u2"} |->
                      IF id = "u1"
                      THEN NewUser("u1", "a@x", r1, get_password_hash("Pw1"))
                      ELSE NewUser("u2", "b@x", r2, get_password_hash("Pw2"))]
    /\ keeps = {"access", "refresh", "password_reset"}
    /\ wallet = {}
    /\ resp = [op |-> "start"]
    /\ req = [w \in Workers |-> Idle]
    /\ obs = [id \in UserIds |-> ObsStart]
    /\ appointments = EmptyTbl
    /\ reviews = EmptyTbl
    /\ score_records = EmptyTbl

NextTok ==
    \/ \E id \in DOMAIN users : issue_tokens(id)
    \/ \E email \in Emails : request_password_reset(email)
    \/ \E e \in wallet : verify_token(e)
    \/ Tick

SpecTok == InitTok /\ [][NextTok]_vars

\* The account's identity as a verifier reports it
ClaimsOf(user, data) ==
    /\ data # Null
    /\ data.user_id = user.id
    /\ data.email = user.email
    /\ data.role = user.role

\* C3: before it expires, the access token generate_tokens returns for a user is
\* accepted by verify_access_token with that user's id, email and role, and at
\* all times it is rejected by verify_refresh_token; the refresh token of the
\* same call is accepted by verify_refresh_token and rejected by
\* verify_access_token; a password-reset token is rejected by both.
C3_TokenKinds ==
    resp.op = "verify" =>
        LET e == resp.entry
            kind == e.tok.claims.type
            user == users[e.owner]
        IN /\ kind = "access" =>
                /\ resp.as_refresh = Null
                /\ now < e.iat + 1800 => ClaimsOf(user, resp.as_access)
                /\ resp.as_access # Null => ClaimsOf(user, resp.as_access)
           /\ kind = "refresh" =>
                /\ resp.as_access = Null
                /\ now < e.iat + 604800 => ClaimsOf(user, resp.as_refresh)
                /\ resp.as_refresh # Null => ClaimsOf(user, resp.as_refresh)
           /\ kind = "password_reset" =>
                /\ resp.as_access = Null
                /\ resp.as_refresh = Null

\* C3 witness: with both keys equal, an access token was accepted as an access
\* token and refused as a refresh token
C3_Witness ==
    /\ resp.op = "verify"
    /\ sameKeys
    /\ resp.entry.tok.claims.type = "access"
    /\ resp.as_access # Null
    /\ resp.as_refresh = Null

\* C4: an access token issued at t is accepted at every time up to t + 30 min
\* - 1 s and rejected at every time after t + 30 min; a refresh token likewise
\* with 7 days and a password-reset token with 1 hour.
C4_Expiry ==
    resp.op = "verify" =>
        LET e == resp.entry
            kind == e.tok.claims.type
        IN /\ kind = "access" =>
                /\ now <= e.iat + 1800 - 1 => resp.as_access # Null
                /\ now > e.iat + 1800 => resp.as_access = Null
           /\ kind = "refresh" =>
                /\ now <= e.iat + 604800 - 1 => resp.as_refresh # Null
                /\ now > e.iat + 604800 => resp.as_refresh = Null
           /\ kind = "password_reset" =>
                /\ now <= e.iat + 3600 - 1 => resp.as_reset # None
                /\ now > e.iat + 3600 => resp.as_reset = None

\* C4 witness: a refresh token was accepted one second before its seven days
\* were over
C4_Witness ==
    /\ resp.op = "verify"
    /\ resp.entry.tok.claims.type = "refresh"
    /\ now = resp.entry.iat + 604800 - 1
    /\ resp.as_refresh # Null

\* C4 witness of the other side: an access token was rejected a second after
\* its thirty minutes
C4_WitnessExpired ==
    /\ resp.op = "verify"
    /\ resp.entry.tok.claims.type = "access"
    /\ now = resp.entry.iat + 1800 + 1
    /\ resp.as_access = Null


-----------------------------------------------------------------------------
(* Sessions: tokens are issued, time passes, the database is reseeded, and   *)
(* tokens are presented to /auth/refresh                                     *)

\* init_sample_data.py, clear_database: DELETE FROM every table
clear_database ==
    /\ users # EmptyTbl
    /\ users' = EmptyTbl
    /\ appointments' = EmptyTbl
    /\ reviews' = EmptyTbl
    /\ score_records' = EmptyTbl
    /\ resp' = [op |-> "clear_database"]
    /\ UNCHANGED <<now, jumps, keeps, sameKeys, wallet, req, obs, hist>>

\* init_sample_data.py, create_sample_users: is_active is taken from the data
\* of each account
SampleUsers(active1, active2) ==
    [id \in {"u1", "u2"} |->
        IF id = "u1"
        THEN [NewUser("u1", "a@x", "teacher", get_password_hash("Pw1"))
                 EXCEPT !.is_active = active1]
        ELSE [NewUser("u2", "b@x", "student", get_password_hash("Pw2"))
                 EXCEPT !.is_active = active2]]

InitSess ==
    /\ now = 0
    /\ jumps = 0
    /\ hist = HistStart
    /\ sameKeys \in BOOLEAN
    /\ \E a1 \in BOOLEAN, a2 \in BOOLEAN : users = SampleUsers(a1, a2)
    /\ keeps = {"access", "refresh"}
    /\ wallet = {}
    /\ resp = [op |-> "start"]
    /\ req = [w \in Workers |-> Idle]
    /\ obs = [id \in UserIds |-> ObsStart]
    /\ appointments = EmptyTbl
    /\ reviews = EmptyTbl
    /\ score_records = EmptyTbl

NextSess ==
    \/ \E id \in DOMAIN users : issue_tokens(id)
    \/ \E token \in Presentable("refresh") : refresh_token(token)
    \/ clear_database
    \/ Tick

SpecSess == InitSess /\ [][NextSess]_vars

\* A refresh token this server issued, not yet past its expiry
ValidRefreshToken(token, t) ==
    /\ token.key = "REFRESH_SECRET_KEY"
    /\ token.claims.type = "refresh"
    /\ t <= token.claims.exp

\* The user a token names is stored and active
UserActive(tbl, token) ==
    /\ token.claims.sub \in DOMAIN tbl
    /\ tbl[token.claims.sub].is_active

\* C9: /auth/refresh answers 200 with a new access and refresh token exactly
\* when the token presented is a valid, unexpired refresh token and the user it
\* names is stored with is_active true; otherwise it answers 401 with no
\* tokens; it never changes the users table.
C9_Refresh ==
    [][resp'.op = "refresh" =>
         /\ users' = users
         /\ IF ValidRefreshToken(resp'.token, now) /\ UserActive(users, resp'.token)
            THEN /\ resp'.status = 200
                 /\ resp'.tokens # Null
                 /\ resp'.tokens.access_token.claims.type = "access"
                 /\ resp'.tokens.refresh_token.claims.type = "refresh"
                 /\ resp'.tokens.access_token.claims.sub = resp'.token.claims.sub
            ELSE /\ resp'.status = 401
                 /\ resp'.tokens = Null]_vars

\* C9 witness: an unexpired refresh token of a stored but deactivated user was
\* answered 401
C9_Witness ==
    /\ resp.op = "refresh"
    /\ ValidRefreshToken(resp.token, now)
    /\ resp.token.claims.sub \in DOMAIN users
    /\ ~users[resp.token.claims.sub].is_active
    /\ resp.status = 401

\* A refresh went through for an active user
C9_WitnessIssued ==
    /\ resp.op = "refresh"
    /\ resp.status = 200
    /\ now > 0

\* An expired refresh token was refused
C9_WitnessExpired ==
    /\ resp.op = "refresh"
    /\ resp.token.key = "REFRESH_SECRET_KEY"
    /\ resp.token.claims.type = "refresh"
    /\ UserActive(users, resp.token)
    /\ now > resp.token.claims.exp
    /\ resp.status = 401

\* The refresh token of an account that is no longer stored was refused
C9_WitnessMissing ==
    /\ resp.op = "refresh"
    /\ ValidRefreshToken(resp.token, now)
    /\ resp.token.claims.sub \notin DOMAIN users
    /\ resp.status = 401

\* An access token was refused although both keys are the same
C9_WitnessWrongType ==
    /\ resp.op = "refresh"
    /\ sameKeys
    /\ resp.token.claims.type = "access"
    /\ resp.token.key = "SECRET_KEY"
    /\ resp.status = 401

-----------------------------------------------------------------------------
(* Logging out: users log in, keep the refresh token, use the access token   *)
(* they were just given to log out, and present the refresh token again      *)

InitOut ==
    /\ now = 0
    /\ jumps = 0
    /\ hist = HistStart
    /\ sameKeys \in BOOLEAN
    /\ \E a2 \in BOOLEAN : users = SampleUsers(TRUE, a2)
    /\ keeps = {"refresh"}
    /\ wallet = {}
    /\ resp = [op |-> "start"]
    /\ req = [w \in Workers |-> Idle]
    /\ obs = [id \in UserIds |-> ObsStart]
    /\ appointments = EmptyTbl
    /\ reviews = EmptyTbl
    /\ score_records = EmptyTbl

NextOut ==
    \/ \E id \in DOMAIN users : login(users[id].email, IF id = "u1" THEN "Pw1" ELSE "Pw2")
    \/ LET Received == IF resp.op \in {"login", "refresh"} /\ resp.tokens # Null
                       THEN {resp.tokens.access_token} ELSE {}
       IN \E token \in Presentable("access") \cup Received : logout(token)
    \/ \E token \in Presentable("refresh") : refresh_token(token)
    \/ clear_database
    \/ Tick

SpecOut == InitOut /\ [][NextOut]_vars

\* C21: no operation revokes a token. Every refresh token the server has
\* issued is accepted by /auth/refresh whenever it is presented no later than
\* its own expiry while the user it names is stored and active, whether or
\* not it has been used before and whether or not the user has logged out;
\* and logout leaves every table as it was.
C21_NoRevocation ==
    [][/\ \A e \in wallet :
            (/\ resp'.op = "refresh"
             /\ resp'.token = e.tok
             /\ e.tok.claims.type = "refresh"
             /\ now <= e.tok.claims.exp
             /\ UserActive(users, e.tok))
               => /\ resp'.status = 200
                  /\ resp'.tokens # Null
       /\ resp'.op = "logout"
            => /\ users' = users
               /\ appointments' = appointments
               /\ reviews' = reviews
               /\ score_records' = score_records]_vars

\* C21 witness: a refresh token that had been used, and whose user then
\* logged out, has just been accepted again
C21_Witness ==
    /\ resp.op = "refresh"
    /\ resp.status = 200
    /\ resp.token \in hist.again
    /\ now > 0

\* A logout was answered 200
C21_WitnessLogout ==
    /\ resp.op = "logout"
    /\ resp.status = 200
    /\ \E e \in wallet : e.owner = resp.token.claims.sub

-----------------------------------------------------------------------------
(* Logins alone: one account, active or switched off, its logins with the    *)
(* right and the wrong password, and the clock                               *)

InitGuard ==
    /\ now = 0
    /\ jumps = 0
    /\ hist = HistStart
    /\ \E active \in BOOLEAN :
          users = [id \in {"u1"} |-> SampleUsers(active, TRUE)[id]]
    /\ wallet = {}
    /\ resp = [op |-> "start"]
    /\ req = [w \in Workers |-> Idle]
    /\ obs = [id \in UserIds |-> ObsStart]
    /\ sameKeys = FALSE
    /\ keeps = {}
    /\ appointments = EmptyTbl
    /\ reviews = EmptyTbl
    /\ score_records = EmptyTbl

NextGuard ==
    \/ \E email \in Emails, password \in Passwords : login(email, password)
    \/ Tick

SpecGuard == InitGuard /\ [][NextGuard]_vars

\* C22: while locked_until is later than now, a login with any password is
\* answered 423 with no tokens and leaves the user's row, and with it
\* login_attempts, locked_until and last_login, as it was; the answer is the
\* one the other password would have got.
C22_LockedRejected ==
    [][\A id \in DOMAIN users :
         LET user == users[id] IN
         (/\ resp'.op = "login" /\ resp'.email = user.email
          /\ user.locked_until # NoTime /\ user.locked_until > now)
            => /\ resp'.status = 423
               /\ resp'.auth = "HTTP_423_LOCKED"
               /\ resp'.tokens = Null
               /\ users'[id] = user
               /\ \A password \in Passwords :
                     LET out == authenticate_user(user, password, now)
                     IN out.ret = resp'.auth /\ out.row = users'[id]]_vars

\* C22 witness: the correct password was refused during the lock
C22_Witness ==
    \E id \in DOMAIN users :
        /\ resp.op = "login" /\ resp.email = users[id].email
        /\ verify_password(resp.password, users[id].hashed_password)
        /\ users[id].locked_until > now
        /\ users[id].is_active
        /\ resp.status = 423

\* A wrong password was refused during the lock and not counted
C22_WitnessWrong ==
    \E id \in DOMAIN users :
        /\ resp.op = "login" /\ resp.email = users[id].email
        /\ ~verify_password(resp.password, users[id].hashed_password)
        /\ users[id].locked_until > now
        /\ now > users[id].locked_until - minutes(LOCKOUT_DURATION_MINUTES)
        /\ users[id].login_attempts = 0
        /\ resp.status = 423

\* C23: a login with a wrong password on an account that is not locked, with
\* n failures stored, commits login_attempts = n + 1 and the same locked_until
\* and answers 401 when n + 1 < 5; it commits locked_until = now + 15 minutes
\* and login_attempts = 0 and answers 423 when n + 1 >= 5; nothing else of the
\* row changes, and the next request finds the row so committed.
C23_FailureCounted ==
    [][\A id \in DOMAIN users :
         LET user == users[id]
             n == user.login_attempts IN
         (/\ resp'.op = "login" /\ resp'.email = user.email
          /\ ~verify_password(resp'.password, user.hashed_password)
          /\ ~(user.locked_until # NoTime /\ user.locked_until > now))
            => IF n + 1 < 5
               THEN /\ users'[id] = [user EXCEPT !.login_attempts = n + 1]
                    /\ resp'.status = 401
                    /\ resp'.tokens = Null
               ELSE /\ users'[id] =
                         [user EXCEPT !.login_attempts = 0,
                                      !.locked_until = now + 15 * 60]
                    /\ resp'.status = 423
                    /\ resp'.tokens = Null]_vars

\* C23 witness: the fifth failure has locked the account for 15 minutes
C23_Witness ==
    \E id \in DOMAIN users :
        /\ resp.op = "login" /\ resp.email = users[id].email
        /\ ~verify_password(resp.password, users[id].hashed_password)
        /\ resp.status = 423
        /\ obs[id].n = 5
        /\ users[id].locked_until = now + 15 * 60
        /\ users[id].login_attempts = 0

\* A failure below the threshold was counted on top of an earlier one
C23_WitnessCounted ==
    \E id \in DOMAIN users :
        /\ resp.op = "login" /\ resp.email = users[id].email
        /\ resp.status = 401
        /\ users[id].login_attempts = 3

\* A failure was counted after a lock had run out, the old locked_until staying
C23_WitnessAfterLock ==
    \E id \in DOMAIN users :
        /\ resp.op = "login" /\ resp.status = 401
        /\ users[id].login_attempts = 1
        /\ users[id].locked_until # NoTime
        /\ users[id].locked_until < now

\* C29: a login with the correct password on an account whose is_active is
\* false is rejected and leaves the user's row as it was.
C29_DeactivatedUnchanged ==
    [][\A id \in DOMAIN users :
         LET user == users[id] IN
         (/\ resp'.op = "login" /\ resp'.email = user.email
          /\ verify_password(resp'.password, user.hashed_password)
          /\ ~user.is_active
          /\ resp'.status # 200)
            => /\ users'[id].login_attempts = user.login_attempts
               /\ users'[id].locked_until = user.locked_until
               /\ users'[id].last_login = user.last_login]_vars

\* What holds of such a login: it is answered 401 without tokens and the
\* account stays switched off
C29_DeactivatedRejected ==
    [][\A id \in DOMAIN users :
         (/\ resp'.op = "login" /\ resp'.email = users[id].email
          /\ ~users[id].is_active)
            => /\ resp'.status \in {401, 423}
               /\ resp'.tokens = Null
               /\ ~users'[id].is_active]_vars

-----------------------------------------------------------------------------
(* Logins served at the same time: each request has its own session, reads   *)
(* the row, computes on the object it loaded and writes at its commit        *)

\* login, up to the query of authenticate_user
LoginBegin(w, email, password) ==
    /\ req[w] = Idle
    /\ LET found == get_user_by_email(users, email) IN
       IF found = {}
       THEN /\ resp' = [op |-> "login", worker |-> w, email |-> email,
                        password |-> password, auth |-> "None", status |-> 401,
                        tokens |-> Null]
            /\ UNCHANGED req
       ELSE \E id \in found :
            /\ req' = [req EXCEPT ![w] =
                          [pc |-> "authenticate", id |-> id, email |-> email,
                           password |-> password, user |-> users[id]]]
            /\ resp' = [op |-> "step", worker |-> w]
    /\ UNCHANGED <<now, jumps, keeps, sameKeys, score_records, hist, users, appointments, reviews, wallet, obs>>

\* login computing on the row as it is stored at the commit
LoginCommit_on_stored_row(w) ==
    /\ req[w].pc = "authenticate"
    /\ LET id == req[w].id
           out == authenticate_user(users[id], req[w].password, now)
           status == LoginStatus(out)
           tokens == IF status = 200 THEN generate_tokens(out.row, now) ELSE Null
       IN /\ users' = Put(users, id, out.row)
          /\ resp' = [op |-> "login", worker |-> w, email |-> req[w].email,
                      password |-> req[w].password, auth |-> out.ret,
                      status |-> status, tokens |-> tokens]
          /\ ClientKeeps(IF status = 200
                         THEN {Entry(tokens.access_token, now, id),
                               Entry(tokens.refresh_token, now, id)}
                         ELSE {})
          /\ obs' = [obs EXCEPT ![id] =
                        ObsLogin(obs[id], users[id], req[w].password, now)]
    /\ req' = [req EXCEPT ![w] = Idle]
    /\ UNCHANGED <<now, jumps, keeps, sameKeys, score_records, hist, appointments, reviews>>

\* login, from the lock check of authenticate_user to the answer: the columns
\* assigned a value other than the one loaded are written by the commit
LoginCommit(w) ==
    /\ req[w].pc = "authenticate"
    /\ LET id == req[w].id
           user == req[w].user
           out == authenticate_user(user, req[w].password, now)
           status == LoginStatus(out)
           tokens == IF status = 200 THEN generate_tokens(out.row, now) ELSE Null
           Written(k) == IF out.row[k] # user[k] THEN out.row[k] ELSE users[id][k]
       IN /\ users' = Put(users, id,
                          [users[id] EXCEPT
                              !.login_attempts = Written("login_attempts"),
                              !.locked_until = Written("locked_until"),
                              !.last_login = Written("last_login")])
          /\ resp' = [op |-> "login", worker |-> w, email |-> req[w].email,
                      password |-> req[w].password, auth |-> out.ret,
                      status |-> status, tokens |-> tokens]
          /\ ClientKeeps(IF status = 200
                         THEN {Entry(tokens.access_token, now, id),
                               Entry(tokens.refresh_token, now, id)}
                         ELSE {})
          /\ obs' = [obs EXCEPT ![id] =
                        ObsLogin(obs[id], users[id], req[w].password, now)]
    /\ req' = [req EXCEPT ![w] = Idle]
    /\ UNCHANGED <<now, jumps, keeps, sameKeys, score_records, hist, appointments, reviews>>

InitRace ==
    /\ InitCommon
    /\ sameKeys = FALSE
    /\ keeps = {}
    /\ appointments = EmptyTbl
    /\ reviews = EmptyTbl
    /\ score_records = EmptyTbl

NextRace ==
    \/ \E w \in Workers, email \in Emails, password \in Passwords :
          LoginBegin(w, email, password)
    \/ \E w \in Workers : LoginCommit(w)

SpecRace == InitRace /\ [][NextRace]_vars

\* C24: the counter a failed login commits is one more than the counter the
\* request itself read, whatever other requests have committed in between, and
\* the request locks the account only when the counter it read was 4; so of
\* two failed logins that read the same counter one increment is lost.
C24_CountsFromItsOwnRead ==
    [][\A w \in Workers :
         (/\ req[w].pc = "authenticate" /\ req'[w] = Idle
          /\ ~verify_password(req[w].password, req[w].user.hashed_password)
          /\ req[w].user.locked_until = NoTime)
            => IF req[w].user.login_attempts + 1 < 5
               THEN /\ users'[req[w].id].login_attempts =
                          req[w].user.login_attempts + 1
                    /\ users'[req[w].id].locked_until = users[req[w].id].locked_until
                    /\ resp'.status = 401
               ELSE /\ users'[req[w].id].login_attempts = 0
                    /\ users'[req[w].id].locked_until = now + 15 * 60
                    /\ resp'.status = 423]_vars

\* C24 witness: five wrong-password logins have completed in a row on the
\* account that started with login_attempts = 0, no request is under way, and
\* the account is not locked
C24_Witness ==
    \E id \in DOMAIN users :
        /\ obs[id].n = 5
        /\ \A w \in Workers : req[w] = Idle
        /\ resp.op = "login" /\ resp.status = 401
        /\ users[id].locked_until = NoTime
        /\ users[id].login_attempts = 4

\* The same with more than one increment lost: a request that read the counter
\* early has written over what three later ones had counted
C24_WitnessOverwritten ==
    \E id \in DOMAIN users :
        /\ obs[id].n = 5
        /\ \A w \in Workers : req[w] = Idle
        /\ users[id].locked_until = NoTime
        /\ users[id].login_attempts = 1

-----------------------------------------------------------------------------
(* The three requests that touch the credentials of an account, one at a     *)
(* time: login, reset-password and change-password. The clients keep the     *)
(* access token of a login and use a reset token as soon as they get it      *)

InitPw ==
    /\ InitCommon
    /\ sameKeys = FALSE
    /\ keeps = {"access"}
    /\ appointments = EmptyTbl
    /\ reviews = EmptyTbl
    /\ score_records = EmptyTbl

NextPw ==
    \/ \E password \in Passwords : login("a@x", password)
    \/ request_password_reset("a@x")
    \/ LET Received == IF resp.op = "request_password_reset" /\ resp.data # Null
                       THEN {resp.data.reset_token} ELSE {}
       IN \E token \in Received \cup {Forged("password_reset")},
             new_password \in Passwords :
             reset_password(token, new_password)
    \/ \E token \in Presentable("access"), old_password, new_password \in Passwords :
          change_password(token, old_password, new_password)
    \/ Tick

SpecPw == InitPw /\ [][NextPw]_vars

\* C27: with login, reset-password and change-password taken one at a time
\* from login_attempts = 0, every committed row has 0 <= login_attempts <= 4,
\* and login_attempts = 0 whenever locked_until is later than now.
C27_CounterRange ==
    \A id \in DOMAIN users :
        /\ users[id].login_attempts \in 0..4
        /\ (users[id].locked_until # NoTime /\ users[id].locked_until > now)
              => users[id].login_attempts = 0

\* C27 witness: the password was changed during the lock and the counter is 0
C27_Witness ==
    \E id \in DOMAIN users :
        /\ resp.op = "change_password" /\ resp.status = 200
        /\ users[id].locked_until > now
        /\ users[id].login_attempts = 0

\* Four failures are stored after a lock has run out
C27_WitnessFour ==
    \E id \in DOMAIN users :
        /\ users[id].login_attempts = 4
        /\ users[id].locked_until # NoTime
        /\ users[id].locked_until < now

\* A password reset has lifted the lock
C27_WitnessReset ==
    \E id \in DOMAIN users :
        /\ resp.op = "reset_password" /\ resp.status = 200
        /\ obs[id].unlocked
        /\ users[id].login_attempts = 0


-----------------------------------------------------------------------------
(* Appointments: booking, status changes and deletion                        *)

\* AppointmentStatus
AppointmentStatus == {"pending", "confirmed", "completed", "cancelled"}

\* datetime.fromisoformat(f"{date}T{time}:00")
fromisoformat(date, time) == days(date) + minutes(time)

\* dict.get(key, default) of a request body field that may be absent
BodyGet(value, default) == IF value = None THEN default ELSE value

\* create_appointment storing a booking whose time is the current time
create_appointment_at_now(body) ==
    /\ LET teacher_id == body.teacherId
           teacher == IF teacher_id \in DOMAIN users THEN users[teacher_id] ELSE Null
           appointment_datetime == fromisoformat(body.date, body.time)
           id == FreshId(appointments, ApptIds)
           row == [id |-> id, teacher_id |-> teacher_id,
                   student_name |-> body.studentName,
                   appointment_time |-> appointment_datetime,
                   status |-> BodyGet(body.status, "pending")]
           code == IF teacher_id = None THEN 400
                   ELSE IF teacher = Null \/ teacher.role # "teacher" THEN 404
                   ELSE IF body.date = NoTime \/ body.time = NoTime THEN 400
                   ELSE IF appointment_datetime < now THEN 400
                   ELSE IF body.studentName = None THEN 500
                   ELSE 200
       IN /\ code = 200 => ApptIds \ DOMAIN appointments # {}
          /\ appointments' = IF code = 200 THEN Put(appointments, id, row)
                             ELSE appointments
          /\ resp' = [op |-> "create_appointment", body |-> body, status |-> code,
                      id |-> IF code = 200 THEN id ELSE None]
    /\ UNCHANGED <<now, jumps, keeps, sameKeys, score_records, hist, users, reviews, wallet, req, obs>>

\* POST /appointments/
create_appointment(body) ==
    /\ LET teacher_id == body.teacherId
           teacher == IF teacher_id \in DOMAIN users THEN users[teacher_id] ELSE Null
           appointment_datetime == fromisoformat(body.date, body.time)
           id == FreshId(appointments, ApptIds)
           row == [id |-> id, teacher_id |-> teacher_id,
                   student_name |-> body.studentName,
                   appointment_time |-> appointment_datetime,
                   status |-> BodyGet(body.status, "pending")]
           code == IF teacher_id = None THEN 400
                   ELSE IF teacher = Null \/ teacher.role # "teacher" THEN 404
                   ELSE IF body.date = NoTime \/ body.time = NoTime THEN 400
                   ELSE IF appointment_datetime <= now THEN 400
                   ELSE IF body.studentName = None THEN 500
                   ELSE 200
       IN /\ code = 200 => ApptIds \ DOMAIN appointments # {}
          /\ appointments' = IF code = 200 THEN Put(appointments, id, row)
                             ELSE appointments
          /\ resp' = [op |-> "create_appointment", body |-> body, status |-> code,
                      id |-> IF code = 200 THEN id ELSE None]
    /\ UNCHANGED <<now, jumps, keeps, sameKeys, score_records, hist, users, reviews, wallet, req, obs>>

\* PUT /appointments/{appointment_id}: the fields that were sent are written
update_appointment(appointment_id, new_status) ==
    /\ IF appointment_id \notin DOMAIN appointments
       THEN /\ resp' = [op |-> "update_appointment", id |-> appointment_id, status |-> 404]
            /\ UNCHANGED appointments
       ELSE /\ appointments' =
                  IF new_status = None THEN appointments
                  ELSE [appointments EXCEPT ![appointment_id].status = new_status]
            /\ resp' = [op |-> "update_appointment", id |-> appointment_id, status |-> 200]
    /\ UNCHANGED <<now, jumps, keeps, sameKeys, score_records, hist, users, reviews, wallet, req, obs>>

\* CRUDBase.delete: the row is gone
Remove(tbl, id) == [i \in DOMAIN tbl \ {id} |-> tbl[i]]

\* delete_appointment that refuses completed appointments only
delete_appointment_unless_completed(appointment_id) ==
    /\ LET code == IF appointment_id \notin DOMAIN appointments THEN 404
                   ELSE IF appointments[appointment_id].status = "completed" THEN 400
                   ELSE 200
       IN /\ appointments' = IF code = 200 THEN Remove(appointments, appointment_id)
                             ELSE appointments
          /\ resp' = [op |-> "delete_appointment", id |-> appointment_id, status |-> code]
    /\ UNCHANGED <<now, jumps, keeps, sameKeys, score_records, hist, users, reviews, wallet, req, obs>>

\* DELETE /appointments/{appointment_id}
delete_appointment(appointment_id) ==
    /\ LET code == IF appointment_id \notin DOMAIN appointments THEN 404
                   ELSE IF appointments[appointment_id].status # "pending" THEN 400
                   ELSE 200
       IN /\ appointments' = IF code = 200 THEN Remove(appointments, appointment_id)
                             ELSE appointments
          /\ resp' = [op |-> "delete_appointment", id |-> appointment_id, status |-> code]
    /\ UNCHANGED <<now, jumps, keeps, sameKeys, score_records, hist, users, reviews, wallet, req, obs>>

\* The bodies a client sends to POST /appointments/: complete ones, and ones
\* with one field missing or naming somebody who is no teacher
Bodies ==
    {b \in [teacherId : {"u1", "u2", None}, date : Dates \cup {NoTime},
            time : Times \cup {NoTime}, studentName : {"Ann", None},
            status : {None, "confirmed"}] :
        Cardinality({f \in {"teacherId", "date", "time", "studentName"} :
                        \/ f = "teacherId" /\ b.teacherId # "u1"
                        \/ f = "date" /\ b.date = NoTime
                        \/ f = "time" /\ b.time = NoTime
                        \/ f = "studentName" /\ b.studentName = None}) <= 1}

InitAppt ==
    /\ now = 0
    /\ jumps = 0
    /\ hist = HistStart
    /\ sameKeys = FALSE
    /\ users = SampleUsers(TRUE, TRUE)
    /\ keeps = {}
    /\ wallet = {}
    /\ resp = [op |-> "start"]
    /\ req = [w \in Workers |-> Idle]
    /\ obs = [id \in UserIds |-> ObsStart]
    /\ appointments = EmptyTbl
    /\ reviews = EmptyTbl
    /\ score_records = EmptyTbl

NextAppt ==
    \/ \E body \in Bodies : create_appointment(body)
    \/ \E id \in ApptIds, st \in AppointmentStatus \cup {None} : update_appointment(id, st)
    \/ \E id \in ApptIds : delete_appointment(id)
    \/ Tick

SpecAppt == InitAppt /\ [][NextAppt]_vars

C7_WitnessDeleted ==
    /\ resp.op = "delete_appointment"
    /\ resp.status = 200
    /\ resp.id \notin DOMAIN appointments

\* C8: create_appointment stores an appointment only when the requested time
\* is strictly later than the current time; when the requested time is the
\* current time or earlier the request is refused and nothing is stored.
C8_OnlyFuture ==
    [][resp'.op = "create_appointment" =>
         LET body == resp'.body
             requested == fromisoformat(body.date, body.time)
         IN /\ appointments' # appointments =>
                 /\ body.date # NoTime /\ body.time # NoTime
                 /\ requested > now
                 /\ resp'.id \notin DOMAIN appointments
                 /\ appointments' = Put(appointments, resp'.id, appointments'[resp'.id])
                 /\ appointments'[resp'.id].appointment_time = requested
            /\ (body.date # NoTime /\ body.time # NoTime /\ requested <= now) =>
                 /\ resp'.status # 200
                 /\ appointments' = appointments]_vars

\* C8 witness: a booking for exactly the current time was refused, at a time
\* later than the start
C8_Witness ==
    /\ resp.op = "create_appointment"
    /\ resp.body.teacherId = "u1"
    /\ resp.body.studentName # None
    /\ resp.body.date # NoTime /\ resp.body.time # NoTime
    /\ fromisoformat(resp.body.date, resp.body.time) = now
    /\ now > 0
    /\ resp.status = 400

\* A booking one second ahead was stored
C8_WitnessStored ==
    /\ resp.op = "create_appointment"
    /\ resp.status = 200
    /\ appointments[resp.id].appointment_time = now + 1


-----------------------------------------------------------------------------
(* Requests served at the same time by several workers on one database: a    *)
(* worker's queries and commits are steps of their own                       *)

\* Python's round(total / count, 1), in tenths (halves go to the even tenth)
round1(total, count) ==
    LET q == (10 * total) \div count
        r == (10 * total) % count
    IN IF 2 * r < count THEN q
       ELSE IF 2 * r > count THEN q + 1
       ELSE IF q % 2 = 0 THEN q ELSE q + 1

\* ratings.get(k, 0)
RatingGet(ratings, k) == IF k \in DOMAIN ratings THEN ratings[k] ELSE 0

RECURSIVE SumRatings(_, _, _)
\* sum(r.ratings.get(k, 0) for r in reviews)
SumRatings(tbl, ids, k) ==
    IF ids = {} THEN 0
    ELSE LET i == CHOOSE x \in ids : TRUE
         IN RatingGet(tbl[i].ratings, k) + SumRatings(tbl, ids \ {i}, k)

\* CRUDReview.get_by_appointment
get_by_appointment(tbl, appointment_id) ==
    {id \in DOMAIN tbl : tbl[id].appointment_id = appointment_id}

\* CRUDReview.get_teacher_rating_stats: the averages, in tenths, and the count
get_teacher_rating_stats(tbl, teacher_id) ==
    LET ids == {id \in DOMAIN tbl : tbl[id].teacher_id = teacher_id}
        count == Cardinality(ids)
    IN IF count = 0
       THEN [overall |-> 0, teaching |-> 0, patience |-> 0, communication |-> 0,
             effectiveness |-> 0, count |-> 0]
       ELSE [overall |-> round1(SumRatings(tbl, ids, "overall"), count),
             teaching |-> round1(SumRatings(tbl, ids, "teaching"), count),
             patience |-> round1(SumRatings(tbl, ids, "patience"), count),
             communication |-> round1(SumRatings(tbl, ids, "communication"), count),
             effectiveness |-> round1(SumRatings(tbl, ids, "effectiveness"), count),
             count |-> count]

\* CRUDUser.update_teacher_rating
update_teacher_rating(tbl, teacher_id, new_rating, review_count) ==
    IF teacher_id \in DOMAIN tbl
    THEN [tbl EXCEPT ![teacher_id].rating = new_rating,
                     ![teacher_id].reviews_count = review_count]
    ELSE tbl

\* Workers that are between two steps of the given kind
Pending(pc) == {w \in Workers : req[w].pc = pc}

\* A step that answers nothing yet
Step(w) == [op |-> "step", worker |-> w]

\* register, up to the query of create_user
RegisterBegin(w, email, password, role) ==
    /\ req[w] = Idle
    /\ IF get_user_by_email(users, email) # {}
       THEN /\ resp' = [op |-> "register", worker |-> w, email |-> email,
                        stage |-> "query", status |-> 400]
            /\ UNCHANGED req
       ELSE /\ Cardinality(UserIds \ DOMAIN users) > Cardinality(Pending("create_user"))
            /\ req' = [req EXCEPT ![w] =
                          [pc |-> "create_user",
                           user_data |-> [email |-> email, password |-> password,
                                          role |-> role]]]
            /\ resp' = Step(w)
    /\ UNCHANGED <<now, jumps, keeps, sameKeys, score_records, hist, users, appointments, reviews, wallet, obs>>

\* register, from db.add and db.commit of create_user to the answer
RegisterCommit(w) ==
    /\ req[w].pc = "create_user"
    /\ LET user_data == req[w].user_data
           id == FreshId(users, UserIds)
           ins == users_insert(users, id,
                               NewUser(id, user_data.email, user_data.role,
                                       get_password_hash(user_data.password)))
       IN /\ users' = ins.tbl
          /\ resp' = [op |-> "register", worker |-> w, email |-> user_data.email,
                      stage |-> "commit", status |-> IF ins.ok THEN 200 ELSE 400]
    /\ req' = [req EXCEPT ![w] = Idle]
    /\ UNCHANGED <<now, jumps, keeps, sameKeys, score_records, hist, appointments, reviews, wallet, obs>>

\* create_teacher_review, up to the query for an existing review
ReviewBegin(w, teacher_id, review_data) ==
    /\ req[w] = Idle
    /\ LET teacher == IF teacher_id \in DOMAIN users THEN users[teacher_id] ELSE Null
           app == IF review_data.appointment_id \in DOMAIN appointments
                  THEN appointments[review_data.appointment_id] ELSE Null
           code == IF teacher = Null \/ teacher.role # "teacher" THEN 404
                   ELSE IF app = Null THEN 404
                   ELSE IF app.teacher_id # teacher_id THEN 400
                   ELSE IF get_by_appointment(reviews, review_data.appointment_id) # {}
                   THEN 400
                   ELSE 200
       IN IF code # 200
          THEN /\ resp' = [op |-> "create_teacher_review", worker |-> w,
                           appointment_id |-> review_data.appointment_id,
                           status |-> code]
               /\ UNCHANGED req
          ELSE /\ Cardinality(ReviewIds \ DOMAIN reviews)
                      > Cardinality(Pending("review_create"))
               /\ req' = [req EXCEPT ![w] =
                             [pc |-> "review_create", teacher_id |-> teacher_id,
                              review_data |-> review_data]]
               /\ resp' = Step(w)
    /\ UNCHANGED <<now, jumps, keeps, sameKeys, score_records, hist, users, appointments, reviews, wallet, obs>>

\* create_teacher_review: review.create, which commits
ReviewCreate(w) ==
    /\ req[w].pc = "review_create"
    /\ LET id == FreshId(reviews, ReviewIds)
           row == [id |-> id, appointment_id |-> req[w].review_data.appointment_id,
                   teacher_id |-> req[w].teacher_id,
                   ratings |-> req[w].review_data.ratings]
       IN /\ reviews' = Put(reviews, id, row)
          /\ req' = [req EXCEPT ![w] =
                        [pc |-> "rating_stats", teacher_id |-> req[w].teacher_id,
                         appointment_id |-> row.appointment_id, id |-> id]]
    /\ resp' = Step(w)
    /\ UNCHANGED <<now, jumps, keeps, sameKeys, score_records, hist, users, appointments, wallet, obs>>

\* create_teacher_review: review.get_teacher_rating_stats, the query over the
\* teacher's reviews
ReviewStats(w) ==
    /\ req[w].pc = "rating_stats"
    /\ req' = [req EXCEPT ![w] =
                  [pc |-> "update_rating", teacher_id |-> req[w].teacher_id,
                   appointment_id |-> req[w].appointment_id, id |-> req[w].id,
                   rating_stats |->
                       get_teacher_rating_stats(reviews, req[w].teacher_id)]]
    /\ resp' = Step(w)
    /\ UNCHANGED <<now, jumps, keeps, sameKeys, score_records, hist, users, appointments, reviews, wallet, obs>>

\* create_teacher_review: a call to the database made after review.create
\* raises, and the handler answers 500
ReviewFail(w) ==
    /\ req[w].pc \in {"rating_stats", "update_rating"}
    /\ resp' = [op |-> "create_teacher_review", worker |-> w,
                appointment_id |-> req[w].appointment_id, status |-> 500]
    /\ req' = [req EXCEPT ![w] = Idle]
    /\ UNCHANGED <<now, jumps, keeps, sameKeys, score_records, hist, users, appointments, reviews, wallet, obs>>

\* update_teacher_rating given statistics taken anew at the write
ReviewRate_recomputes(w) ==
    /\ req[w].pc = "update_rating"
    /\ LET rating_stats == get_teacher_rating_stats(reviews, req[w].teacher_id)
       IN users' = update_teacher_rating(users, req[w].teacher_id,
                                         rating_stats.overall, rating_stats.count)
    /\ resp' = [op |-> "create_teacher_review", worker |-> w,
                appointment_id |-> req[w].appointment_id, status |-> 200]
    /\ req' = [req EXCEPT ![w] = Idle]
    /\ UNCHANGED <<now, jumps, keeps, sameKeys, score_records, hist, appointments, reviews, wallet, obs>>

\* create_teacher_review: user.update_teacher_rating with the statistics that
\* were taken, which commits, and the review is returned
ReviewRate(w) ==
    /\ req[w].pc = "update_rating"
    /\ LET rating_stats == req[w].rating_stats
       IN users' = update_teacher_rating(users, req[w].teacher_id,
                                         rating_stats.overall, rating_stats.count)
    /\ resp' = [op |-> "create_teacher_review", worker |-> w,
                appointment_id |-> req[w].appointment_id, status |-> 200]
    /\ req' = [req EXCEPT ![w] = Idle]
    /\ UNCHANGED <<now, jumps, keeps, sameKeys, score_records, hist, appointments, reviews, wallet, obs>>

\* init_sample_data.py, create_sample_appointments: lessons that were held
SampleAppointments ==
    [id \in ApptIds |->
        [id |-> id, teacher_id |-> "u1", student_name |-> "Ann",
         appointment_time |-> 0, status |-> "completed"]]

\* The review bodies the clients send
ReviewBodies == [appointment_id : ApptIds \cup {"a0"}, ratings : [overall : Overall]]

InitConc ==
    /\ now = 0
    /\ jumps = 0
    /\ hist = HistStart
    /\ sameKeys = FALSE
    /\ users = SeedUsers
    /\ keeps = {}
    /\ wallet = {}
    /\ resp = [op |-> "start"]
    /\ req = [w \in Workers |-> Idle]
    /\ obs = [id \in UserIds |-> ObsStart]
    /\ appointments = SampleAppointments
    /\ reviews = EmptyTbl
    /\ score_records = EmptyTbl

NextConc ==
    \/ \E w \in Workers, email \in Emails, role \in {"student", "teacher"} :
          RegisterBegin(w, email, "Pw1", role)
    \/ \E w \in Workers : RegisterCommit(w)
    \/ \E w \in Workers, teacher_id \in {"u1", "u2"}, review_data \in ReviewBodies :
          ReviewBegin(w, teacher_id, review_data)
    \/ \E w \in Workers : ReviewCreate(w)
    \/ \E w \in Workers : ReviewStats(w)
    \/ \E w \in Workers : ReviewRate(w)
    \/ \E w \in Workers : ReviewFail(w)

SpecConc == InitConc /\ [][NextConc]_vars

\* C5: at most one review is stored per appointment_id, also when several
\* create-review requests for one appointment are served at the same time; a
\* request for an appointment that has a review is answered 400 and stores
\* nothing.
C5_OneReviewPerAppointment ==
    \A r1 \in DOMAIN reviews, r2 \in DOMAIN reviews :
        reviews[r1].appointment_id = reviews[r2].appointment_id => r1 = r2

\* C5, for requests that do not overlap: a request that begins when the
\* appointment has a review is answered 400 and stores nothing
C5_SecondReviewRejected ==
    [][(/\ resp'.op = "create_teacher_review"
        /\ req = req'
        /\ get_by_appointment(reviews, resp'.appointment_id) # {})
         => resp'.status # 200 /\ reviews' = reviews]_vars

\* C6: no two users share an email, also when two register calls with one
\* email are served at the same time and both pass the query before either
\* inserts; a register call that finds its email stored is answered 400 and
\* creates no user.
C6_EmailUnique ==
    [][/\ \A i \in DOMAIN users', j \in DOMAIN users' :
             users'[i].email = users'[j].email => i = j
       /\ (/\ resp'.op = "register"
           /\ get_user_by_email(users, resp'.email) # {})
            => resp'.status = 400 /\ users' = users]_vars

\* C6 witness: a register call passed the query for its email and was refused
\* at the insert, the email having been stored in between
C6_Witness ==
    /\ resp.op = "register"
    /\ resp.stage = "commit"
    /\ resp.status = 400
    /\ Cardinality(get_user_by_email(users, resp.email)) = 1

\* C25: create-review is all-or-nothing. In no state is a review stored for a
\* teacher whose rating and reviews_count are not the statistics of the
\* reviews stored for that teacher, and a request answered with a failure has
\* left no review of its appointment behind.
C25_AllOrNothing ==
    /\ \A id \in DOMAIN users :
          LET rating_stats == get_teacher_rating_stats(reviews, id) IN
          rating_stats.count > 0
             => /\ users[id].reviews_count = rating_stats.count
                /\ users[id].rating = rating_stats.overall
    /\ (resp.op = "create_teacher_review" /\ resp.status # 200)
          => get_by_appointment(reviews, resp.appointment_id) = {}

\* C25, for what fails before review.create: a request refused with 400 or 404
\* stores nothing and leaves the teacher as it was
C25_RefusedStoresNothing ==
    [][(resp'.op = "create_teacher_review" /\ resp'.status \in {400, 404})
         => reviews' = reviews /\ users' = users]_vars

\* C25: a request has answered 500 and its review is stored, the teacher's
\* reviews_count not counting it
C25_FailedAndStored ==
    /\ resp.op = "create_teacher_review" /\ resp.status = 500
    /\ \A w \in Workers : req[w] = Idle
    /\ Cardinality(get_by_appointment(reviews, resp.appointment_id)) = 1
    /\ users["u1"].reviews_count = 0

\* C26: update_teacher_rating commits the statistics that the request took
\* when it queried the reviews, whatever has been stored since; so the request
\* that queried first and writes last leaves the count of its own query.
C26_WritesItsOwnStatistics ==
    [][\A w \in Workers :
         (req[w].pc = "update_rating" /\ req'[w] = Idle /\ resp'.status = 200)
            => /\ users'[req[w].teacher_id].reviews_count = req[w].rating_stats.count
               /\ users'[req[w].teacher_id].rating = req[w].rating_stats.overall
               /\ reviews' = reviews]_vars

\* C26 witness: two requests for different appointments of one teacher have
\* both been answered 200, both reviews are stored, and the teacher's
\* reviews_count is 1
C26_Witness ==
    /\ \A w \in Workers : req[w] = Idle
    /\ resp.op = "create_teacher_review" /\ resp.status = 200
    /\ get_by_appointment(reviews, "a1") # {}
    /\ get_by_appointment(reviews, "a2") # {}
    /\ Cardinality(DOMAIN reviews) = 2
    /\ users["u1"].reviews_count = 1

\* The same, the stored rating being that of one review and not the mean
C26_WitnessRating ==
    /\ \A w \in Workers : req[w] = Idle
    /\ resp.op = "create_teacher_review" /\ resp.status = 200
    /\ Cardinality(DOMAIN reviews) = 2
    /\ users["u1"].reviews_count = 1
    /\ users["u1"].rating # get_teacher_rating_stats(reviews, "u1").overall


-----------------------------------------------------------------------------
(* Password reset: what the responses give away, and how often a token works *)

\* The users table of the other run: the same, but for the account with the
\* given email, which is not stored there
WithoutEmail(tbl, email) ==
    [id \in DOMAIN tbl \ get_user_by_email(tbl, email) |-> tbl[id]]

\* C11: request-password-reset answers the same (success flag, message and
\* data) in two runs that differ only in whether a user with the requested
\* email is stored.
C11_NoExistenceLeak ==
    resp.op = "request_password_reset" =>
        LET other == PasswordResetResponse(WithoutEmail(users, resp.email),
                                           resp.email, now)
        IN /\ resp.success = other.success
           /\ resp.message = other.message
           /\ resp.data = other.data

\* C11, the part that holds: the success flag is the same in both runs
C11_SameSuccessFlag ==
    resp.op = "request_password_reset" =>
        resp.success = PasswordResetResponse(WithoutEmail(users, resp.email),
                                             resp.email, now).success

\* C12: a password-reset token works once: after reset-password has succeeded
\* with a token, a later reset-password call with that token is rejected and
\* leaves the password hash and the lockout fields as they are, also before the
\* token expires. Stated of the call that follows the successful one directly.
C12_SingleUse ==
    [][(/\ resp.op = "reset_password" /\ resp.status = 200
        /\ resp'.op = "reset_password" /\ resp'.token = resp.token)
         => /\ resp'.status # 200
            /\ \A id \in DOMAIN users :
                  /\ users'[id].hashed_password = users[id].hashed_password
                  /\ users'[id].login_attempts = users[id].login_attempts
                  /\ users'[id].locked_until = users[id].locked_until]_vars

\* C12, the part that holds: a token is rejected once it has expired, used
\* before or not
C12_ExpiredRejected ==
    [][(resp'.op = "reset_password" /\ now > resp'.token.claims.exp)
         => resp'.status = 400 /\ users' = users]_vars

-----------------------------------------------------------------------------
(* Registration                                                             *)

\* The roles a client may write into a register request
RequestRoles == Roles \cup {"root"}

InitReg ==
    /\ InitCommon
    /\ sameKeys = FALSE
    /\ keeps = {}
    /\ appointments = EmptyTbl
    /\ reviews = EmptyTbl
    /\ score_records = EmptyTbl

\* The emails a client may write into a register request
RequestEmails == Emails \cup {"c@x"}

NextReg ==
    \/ \E email \in RequestEmails, password \in Passwords, role \in RequestRoles :
          register(email, password, role)
    \/ \E email \in RequestEmails : request_password_reset(email)

SpecReg == InitReg /\ [][NextReg]_vars

\* C13: register creates no user whose role is admin: it accepts the roles
\* student and teacher only, and a request with any other role is rejected and
\* creates no user.
C13_NoAdminByRegister ==
    [][resp'.op = "register" =>
         /\ resp'.role \notin {"student", "teacher"}
               => resp'.status # 200 /\ users' = users
         /\ \A id \in DOMAIN users' \ DOMAIN users : users'[id].role # "admin"]_vars

\* C13, the part that holds: a role that is no UserRole is rejected and
\* creates no user
C13_UnknownRoleRejected ==
    [][(resp'.op = "register" /\ resp'.role \notin Roles)
         => resp'.status = 422 /\ users' = users]_vars

\* ------------------------------------------------------------------
\* Learning analytics (app/api/analytics.py)
\* Scores are in hundredths of a point, rates and percentages in tenths
\* of a percent, so that Python's round(x, 1) is a real rounding.

\* round(n / d) to the nearest integer, halves to the even neighbour
RoundDiv(n, d) ==
    LET q == n \div d
        r == n % d
    IN  IF 2 * r < d THEN q
        ELSE IF 2 * r > d THEN q + 1
        ELSE IF q % 2 = 0 THEN q ELSE q + 1

\* round(x, 1) of a value held in hundredths
round_1(x) == 10 * RoundDiv(x, 10)

RECURSIVE SumOf(_, _)
\* sum(f[i] for i in ids)
SumOf(f, ids) ==
    IF ids = {} THEN 0
    ELSE LET i == CHOOSE j \in ids : TRUE IN f[i] + SumOf(f, ids \ {i})

\* query.order_by(date.desc()).limit(limit): the keys of the limit newest rows
Newest(tbl, ids, limit) ==
    {i \in ids : Cardinality({j \in ids : tbl[j].date > tbl[i].date}) < limit}

\* CRUDScoreRecord.get_by_student / get_by_teacher: the keys of the rows
get_by_student(tbl, student_id, limit) ==
    Newest(tbl, {i \in DOMAIN tbl : tbl[i].student_id = student_id}, limit)
get_by_teacher(tbl, teacher_id, limit) ==
    Newest(tbl, {i \in DOMAIN tbl : tbl[i].teacher_id = teacher_id}, limit)

\* get_student_analytics, the loop body: the SubjectImprovement of the
\* records ids of one subject
SubjectImprovement(tbl, subject, ids) ==
    LET first == CHOOSE i \in ids : \A j \in ids : tbl[i].date <= tbl[j].date
        last == CHOOSE i \in ids : \A j \in ids : tbl[j].date <= tbl[i].date
        total_subject_improvement ==
            SumOf([i \in ids |-> tbl[i].after_score - tbl[i].before_score], ids)
        initial_score == tbl[first].before_score
        latest_score == tbl[last].after_score
    IN  [subject |-> subject,
         total_improvement |-> total_subject_improvement,
         average_improvement |-> <<total_subject_improvement, Cardinality(ids)>>,
         improvement_percent |->
             IF initial_score > 0
             THEN RoundDiv(1000 * (latest_score - initial_score), initial_score)
             ELSE 0,
         record_count |-> Cardinality(ids),
         lesson_count |-> SumOf([i \in ids |-> tbl[i].lesson_count], ids),
         latest_score |-> latest_score,
         initial_score |-> initial_score]

\* get_student_analytics counting the records where it counts the subjects
StudentAnalytics_counts_records(tbl, student_id) ==
    LET ids == get_by_student(tbl, student_id, 1000)
        subjects == {tbl[i].subject : i \in ids}
        improvements_by_subject ==
            [s \in subjects |->
                SubjectImprovement(tbl, s, {i \in ids : tbl[i].subject = s})]
    IN  [student_id |-> student_id,
         total_improvement |->
             round_1(SumOf([s \in subjects |-> improvements_by_subject[s].total_improvement],
                           subjects)),
         total_lessons |->
             SumOf([s \in subjects |-> improvements_by_subject[s].lesson_count], subjects),
         subjects_count |-> Cardinality(ids),
         improvements_by_subject |-> improvements_by_subject]

\* get_student_analytics, from the query on: the StudentAnalytics
StudentAnalytics(tbl, student_id) ==
    LET ids == get_by_student(tbl, student_id, 1000)
        subjects == {tbl[i].subject : i \in ids}
        improvements_by_subject ==
            [s \in subjects |->
                SubjectImprovement(tbl, s, {i \in ids : tbl[i].subject = s})]
    IN  IF ids = {}
        THEN [student_id |-> student_id, total_improvement |-> 0, total_lessons |-> 0,
              subjects_count |-> 0, improvements_by_subject |-> <<>>]
        ELSE
        [student_id |-> student_id,
         total_improvement |->
             round_1(SumOf([s \in subjects |-> improvements_by_subject[s].total_improvement],
                           subjects)),
         total_lessons |->
             SumOf([s \in subjects |-> improvements_by_subject[s].lesson_count], subjects),
         subjects_count |-> Cardinality(subjects),
         improvements_by_subject |-> improvements_by_subject]

\* review.get_by_teacher(limit=1000): the keys of the teacher's reviews (the
\* tables here stay below the limit)
reviews_by_teacher(tbl, teacher_id) == {i \in DOMAIN tbl : tbl[i].teacher_id = teacher_id}

\* get_teacher_analytics cutting the recommendation rate off after the first
\* decimal where it rounds
TeacherAnalytics_truncates(tbl, rtbl, teacher_id) ==
    LET ids == get_by_teacher(tbl, teacher_id, 1000)
        teacher_reviews == reviews_by_teacher(rtbl, teacher_id)
        recommended_count == Cardinality({i \in teacher_reviews : rtbl[i].is_recommended})
    IN  [teacher_id |-> teacher_id,
         students_count |-> Cardinality({tbl[i].student_id : i \in ids}),
         total_lessons |-> SumOf([i \in ids |-> tbl[i].lesson_count], ids),
         average_improvement |->
             IF ids = {} THEN 0
             ELSE 10 * RoundDiv(SumOf([i \in ids |-> tbl[i].after_score - tbl[i].before_score],
                                      ids),
                                10 * Cardinality(ids)),
         recommendation_rate |->
             IF teacher_reviews = {} THEN 0
             ELSE (1000 * recommended_count) \div Cardinality(teacher_reviews),
         total_reviews |-> Cardinality(teacher_reviews)]

\* get_teacher_analytics, from the queries on: the TeacherAnalytics
TeacherAnalytics(tbl, rtbl, teacher_id) ==
    LET ids == get_by_teacher(tbl, teacher_id, 1000)
        teacher_reviews == reviews_by_teacher(rtbl, teacher_id)
        recommended_count == Cardinality({i \in teacher_reviews : rtbl[i].is_recommended})
    IN  [teacher_id |-> teacher_id,
         students_count |-> Cardinality({tbl[i].student_id : i \in ids}),
         total_lessons |-> SumOf([i \in ids |-> tbl[i].lesson_count], ids),
         average_improvement |->
             IF ids = {} THEN 0
             ELSE 10 * RoundDiv(SumOf([i \in ids |-> tbl[i].after_score - tbl[i].before_score],
                                      ids),
                                10 * Cardinality(ids)),
         recommendation_rate |->
             IF teacher_reviews = {} THEN 0
             ELSE RoundDiv(1000 * recommended_count, Cardinality(teacher_reviews)),
         total_reviews |-> Cardinality(teacher_reviews)]

\* Depends(get_current_active_user): HTTPBearer answers 403 to a request
\* without credentials, get_current_user 401 to a token that does not verify
\* or names no active user; then the 400 of get_current_active_user is left
\* to users that are stored, hold a token and are not active, which
\* get_current_user has turned away already
get_current_active_user(token, t) ==
    IF token = Null THEN [status |-> 403, id |-> None]
    ELSE LET id == get_current_user(token, t) IN
         IF id = None THEN [status |-> 401, id |-> None]
         ELSE IF ~users[id].is_active THEN [status |-> 400, id |-> None]
         ELSE [status |-> 200, id |-> id]

\* get_student_analytics(student_id, db, current_user): status and body
get_student_analytics(student_id, current_user) ==
    IF student_id \notin DOMAIN users THEN [status |-> 404, body |-> Null]
    ELSE IF users[student_id].role # "student" THEN [status |-> 404, body |-> Null]
    ELSE IF current_user.role = "student" /\ current_user.id # student_id
    THEN [status |-> 403, body |-> Null]
    ELSE IF current_user.role \notin {"student", "teacher", "admin"}
    THEN [status |-> 403, body |-> Null]
    ELSE [status |-> 200, body |-> StudentAnalytics(score_records, student_id)]

\* get_teacher_analytics without the comparison of the teacher's id with the
\* caller's
get_teacher_analytics_any_teacher(teacher_id, current_user) ==
    IF teacher_id \notin DOMAIN users \/ users[teacher_id].role # "teacher"
    THEN [status |-> 404, body |-> Null]
    ELSE IF current_user.role = "student" THEN [status |-> 403, body |-> Null]
    ELSE IF current_user.role \notin {"teacher", "admin"}
    THEN [status |-> 403, body |-> Null]
    ELSE [status |-> 200, body |-> TeacherAnalytics(score_records, reviews, teacher_id)]

\* get_teacher_analytics(teacher_id, db, current_user): status and body
get_teacher_analytics(teacher_id, current_user) ==
    IF teacher_id \notin DOMAIN users \/ users[teacher_id].role # "teacher"
    THEN [status |-> 404, body |-> Null]
    ELSE IF current_user.role = "teacher" /\ current_user.id # teacher_id
    THEN [status |-> 403, body |-> Null]
    ELSE IF current_user.role = "student" THEN [status |-> 403, body |-> Null]
    ELSE IF current_user.role \notin {"teacher", "admin"}
    THEN [status |-> 403, body |-> Null]
    ELSE [status |-> 200, body |-> TeacherAnalytics(score_records, reviews, teacher_id)]

\* get_subject_analytics(subject, db): the dict it returns
SubjectAnalytics(tbl, subject) ==
    LET ids == {i \in DOMAIN tbl : tbl[i].subject = subject}
        improvements == [i \in ids |-> tbl[i].after_score - tbl[i].before_score]
    IN  IF ids = {}
        THEN [subject |-> subject, total_students |-> 0, total_teachers |-> 0,
              total_lessons |-> 0, average_improvement |-> 0, success_rate |-> 0]
        ELSE [subject |-> subject,
              total_students |-> Cardinality({tbl[i].student_id : i \in ids}),
              total_teachers |-> Cardinality({tbl[i].teacher_id : i \in ids}),
              total_lessons |-> SumOf([i \in ids |-> tbl[i].lesson_count], ids),
              average_improvement |->
                  10 * RoundDiv(SumOf(improvements, ids), 10 * Cardinality(ids)),
              success_rate |->
                  RoundDiv(1000 * Cardinality({i \in ids : improvements[i] >= 1000}),
                           Cardinality(ids)),
              total_records |-> Cardinality(ids)]

\* get_platform_overview(db): the dict it returns
PlatformOverview(utbl, tbl, rtbl) ==
    LET ids == DOMAIN tbl
        subjects == {tbl[i].subject : i \in ids}
        rated == {i \in DOMAIN rtbl : rtbl[i].ratings # Null}
    IN  [platform_stats |->
             [total_teachers |-> Cardinality({u \in DOMAIN utbl : utbl[u].role = "teacher"}),
              total_students |-> Cardinality({u \in DOMAIN utbl : utbl[u].role = "student"}),
              total_lessons |-> SumOf([i \in ids |-> tbl[i].lesson_count], ids),
              total_reviews |-> Cardinality(DOMAIN rtbl),
              total_score_records |-> Cardinality(ids)],
         performance_stats |->
             [average_improvement |->
                  IF ids = {} THEN 0
                  ELSE 10 * RoundDiv(SumOf([i \in ids |-> tbl[i].after_score
                                                          - tbl[i].before_score], ids),
                                     10 * Cardinality(ids)),
              average_rating |->
                  IF rated = {} THEN 0
                  ELSE round1(SumOf([i \in rated |-> rtbl[i].ratings.overall], rated),
                              Cardinality(rated)),
              active_subjects |-> Cardinality(subjects)],
         subject_distribution |->
             [s \in subjects |-> Cardinality({i \in ids : tbl[i].subject = s})]]

\* GET /analytics/student/{student_id}
analytics_student(token, student_id) ==
    /\ LET cu == get_current_active_user(token, now) IN
       resp' = [op |-> "get_student_analytics", token |-> token, id |-> student_id]
               @@ (IF cu.status # 200 THEN [status |-> cu.status, body |-> Null]
                   ELSE get_student_analytics(student_id, users[cu.id]))
    /\ UNCHANGED <<now, jumps, keeps, sameKeys, score_records, hist, users, appointments, reviews,
                   wallet, req, obs>>

\* GET /analytics/teacher/{teacher_id}
analytics_teacher(token, teacher_id) ==
    /\ LET cu == get_current_active_user(token, now) IN
       resp' = [op |-> "get_teacher_analytics", token |-> token, id |-> teacher_id]
               @@ (IF cu.status # 200 THEN [status |-> cu.status, body |-> Null]
                   ELSE get_teacher_analytics(teacher_id, users[cu.id]))
    /\ UNCHANGED <<now, jumps, keeps, sameKeys, score_records, hist, users, appointments, reviews,
                   wallet, req, obs>>

\* GET /analytics/subject/{subject}: the handler depends on the database
\* only, the credentials of the request are not looked at
get_subject_analytics(token, subject) ==
    /\ resp' = [op |-> "get_subject_analytics", token |-> token, id |-> subject,
                status |-> 200, body |-> SubjectAnalytics(score_records, subject)]
    /\ UNCHANGED <<now, jumps, keeps, sameKeys, score_records, hist, users, appointments, reviews,
                   wallet, req, obs>>

\* GET /analytics/my-analytics
get_my_analytics(token) ==
    /\ LET cu == get_current_active_user(token, now) IN
       resp' = [op |-> "get_my_analytics", token |-> token, id |-> cu.id]
               @@ (IF cu.status # 200 THEN [status |-> cu.status, body |-> Null]
                   ELSE IF users[cu.id].role = "student"
                   THEN get_student_analytics(cu.id, users[cu.id])
                   ELSE IF users[cu.id].role = "teacher"
                   THEN get_teacher_analytics(cu.id, users[cu.id])
                   ELSE [status |-> 400, body |-> Null])
    /\ UNCHANGED <<now, jumps, keeps, sameKeys, score_records, hist, users, appointments, reviews,
                   wallet, req, obs>>

\* GET /analytics/overview: depends on the database only
get_platform_overview(token) ==
    /\ resp' = [op |-> "get_platform_overview", token |-> token, id |-> None,
                status |-> 200,
                body |-> PlatformOverview(users, score_records, reviews)]
    /\ UNCHANGED <<now, jumps, keeps, sameKeys, score_records, hist, users, appointments, reviews,
                   wallet, req, obs>>

\* The subjects of the score records
Subjects == {"Math", "Physics"}

\* One row of score_records (models/database.py, ScoreRecord)
ScoreRow(id, student_id, teacher_id, subject, before_score, after_score, lesson_count, date) ==
    [id |-> id, student_id |-> student_id, teacher_id |-> teacher_id,
     subject |-> subject, before_score |-> before_score, after_score |-> after_score,
     lesson_count |-> lesson_count, date |-> date]

\* One row of reviews as create_sample_reviews stores it
ReviewRow(id, appointment_id, teacher_id, overall, is_recommended) ==
    [id |-> id, appointment_id |-> appointment_id, teacher_id |-> teacher_id,
     ratings |-> [overall |-> overall], is_recommended |-> is_recommended]

\* The accounts of the analytics scenarios: two teachers, two students, an
\* administrator, and a row whose role column (a free String(20)) holds a
\* value outside UserRole
AnalyticsUsers ==
    [id \in {"u1", "u2", "u3", "u4", "u5", "u6"} |->
        NewUser(id,
                CASE id = "u1" -> "a@x" [] id = "u2" -> "b@x" [] id = "u3" -> "c@x"
                  [] id = "u4" -> "d@x" [] id = "u5" -> "e@x" [] OTHER -> "f@x",
                CASE id \in {"u1", "u4"} -> "teacher" [] id \in {"u2", "u3"} -> "student"
                  [] id = "u5" -> "admin" [] OTHER -> "parent",
                get_password_hash("Pw1"))]

\* create_sample_score_records and create_sample_reviews, cut down
SampleScoreRecords ==
    [id \in {"s1", "s2", "s3"} |->
        CASE id = "s1" -> ScoreRow(id, "u2", "u1", "Math", 8500, 9500, 2, 1)
          [] id = "s2" -> ScoreRow(id, "u2", "u4", "Physics", 6000, 7500, 1, 2)
          [] OTHER -> ScoreRow(id, "u3", "u1", "Math", 7500, 8500, 3, 3)]

SampleReviews ==
    [id \in {"r1", "r2"} |->
        CASE id = "r1" -> ReviewRow(id, "a1", "u1", 5, TRUE)
          [] OTHER -> ReviewRow(id, "a2", "u4", 4, FALSE)]

\* The credentials of a request: a token the client holds, a forged one, none
Credentials == Presentable("access") \cup {Null}

InitAna ==
    /\ now = 0
    /\ jumps = 0
    /\ hist = HistStart
    /\ sameKeys = FALSE
    /\ \E off \in {None, "u2"} :
          users = [id \in DOMAIN AnalyticsUsers |->
                      [AnalyticsUsers[id] EXCEPT !.is_active = (id # off)]]
    /\ keeps = {"access"}
    /\ wallet = {}
    /\ resp = [op |-> "start"]
    /\ req = [w \in Workers |-> Idle]
    /\ obs = [id \in UserIds |-> ObsStart]
    /\ appointments = EmptyTbl
    /\ reviews = SampleReviews
    /\ score_records = SampleScoreRecords

NextAna ==
    \/ \E id \in {"u1", "u2", "u5", "u6"} : issue_tokens(id)
    \/ \E token \in Credentials, id \in {"u1", "u2", "u3", "u4", "u0"} :
          analytics_student(token, id)
    \/ \E token \in Credentials, id \in {"u1", "u2", "u3", "u4", "u0"} :
          analytics_teacher(token, id)
    \/ \E token \in Credentials, subject \in Subjects : get_subject_analytics(token, subject)
    \/ \E token \in Credentials : get_my_analytics(token)
    \/ \E token \in Credentials : get_platform_overview(token)
    \/ Tick

SpecAna == InitAna /\ [][NextAna]_vars

\* An access token this server issued, not yet past its expiry
ValidAccessToken(token, t) ==
    /\ token # Null
    /\ token.key = "SECRET_KEY"
    /\ token.claims.type = "access"
    /\ t <= token.claims.exp

\* The stored, active user whose valid access token the request carries, or None
Caller(token, t) ==
    IF ValidAccessToken(token, t) /\ UserActive(users, token)
    THEN token.claims.sub ELSE None

\* The body of a response is a StudentAnalytics / a TeacherAnalytics
IsStudentAnalytics(body) == body # Null /\ "student_id" \in DOMAIN body
IsTeacherAnalytics(body) == body # Null /\ "teacher_id" \in DOMAIN body

\* C14: on the per-student, per-teacher and my-analytics endpoints a caller of
\* role student receives student analytics of their own id only and never
\* teacher analytics; a caller of role teacher receives teacher analytics of
\* their own id only; a caller of role admin receives the analytics of every
\* student and every teacher asked for; a caller of any other role receives
\* no analytics.
C14_AccessControl ==
    [][(/\ resp'.op \in {"get_student_analytics", "get_teacher_analytics", "get_my_analytics"}
        /\ Caller(resp'.token, now) # None)
         => LET c == Caller(resp'.token, now)
                role == users[c].role
                body == resp'.body
            IN  /\ role = "student" =>
                      /\ ~IsTeacherAnalytics(body)
                      /\ (IsStudentAnalytics(body) => body.student_id = c)
                /\ role = "teacher" =>
                      (IsTeacherAnalytics(body) => body.teacher_id = c)
                /\ role = "admin" =>
                      /\ (/\ resp'.op = "get_student_analytics"
                          /\ resp'.id \in DOMAIN users
                          /\ users[resp'.id].role = "student")
                            => /\ resp'.status = 200
                               /\ IsStudentAnalytics(body)
                               /\ body.student_id = resp'.id
                      /\ (/\ resp'.op = "get_teacher_analytics"
                          /\ resp'.id \in DOMAIN users
                          /\ users[resp'.id].role = "teacher")
                            => /\ resp'.status = 200
                               /\ IsTeacherAnalytics(body)
                               /\ body.teacher_id = resp'.id
                /\ role \notin {"student", "teacher", "admin"} =>
                      /\ body = Null
                      /\ resp'.status # 200]_vars

\* C14 witness: a teacher asked for the analytics of another teacher and was
\* answered 403
C14_Witness ==
    /\ resp.op = "get_teacher_analytics"
    /\ Caller(resp.token, now) # None
    /\ users[Caller(resp.token, now)].role = "teacher"
    /\ resp.id \in DOMAIN users
    /\ users[resp.id].role = "teacher"
    /\ resp.id # Caller(resp.token, now)
    /\ resp.status = 403

\* C14 witness: a student was answered 403 for another student's analytics
C14_WitnessStudentDenied ==
    /\ resp.op = "get_student_analytics"
    /\ Caller(resp.token, now) # None
    /\ users[Caller(resp.token, now)].role = "student"
    /\ resp.id \in DOMAIN users
    /\ users[resp.id].role = "student"
    /\ resp.id # Caller(resp.token, now)
    /\ resp.status = 403

\* C14 witness: a student received their own analytics
C14_WitnessStudentOwn ==
    /\ resp.op \in {"get_student_analytics", "get_my_analytics"}
    /\ Caller(resp.token, now) # None
    /\ users[Caller(resp.token, now)].role = "student"
    /\ IsStudentAnalytics(resp.body)
    /\ resp.body.student_id = Caller(resp.token, now)

\* C14 witness: the administrator received the analytics of a teacher
C14_WitnessAdmin ==
    /\ resp.op = "get_teacher_analytics"
    /\ Caller(resp.token, now) # None
    /\ users[Caller(resp.token, now)].role = "admin"
    /\ IsTeacherAnalytics(resp.body)

\* C14 witness: a caller whose role is none of the three was denied
C14_WitnessOtherRole ==
    /\ resp.op \in {"get_student_analytics", "get_teacher_analytics"}
    /\ Caller(resp.token, now) # None
    /\ users[Caller(resp.token, now)].role = "parent"
    /\ resp.id \in DOMAIN users
    /\ resp.status = 403

\* C15: every analytics endpoint (per-student, per-teacher, per-subject,
\* platform-overview, my-analytics) returns statistics only to a request that
\* carries a valid access token of a stored, active user; a request without
\* such a token receives no analytics data.
C15_TokenRequired ==
    [][(/\ resp'.op \in {"get_student_analytics", "get_teacher_analytics",
                         "get_subject_analytics", "get_platform_overview",
                         "get_my_analytics"}
        /\ Caller(resp'.token, now) = None)
         => resp'.body = Null /\ resp'.status # 200]_vars

\* C15, the part that holds: the per-student, per-teacher and my-analytics
\* endpoints answer 401 or 403 with no data to a request without such a token
C15_GatedEndpoints ==
    [][(/\ resp'.op \in {"get_student_analytics", "get_teacher_analytics", "get_my_analytics"}
        /\ Caller(resp'.token, now) = None)
         => resp'.body = Null /\ resp'.status \in {401, 403}]_vars

\* A request without a usable token was turned away by a gated endpoint
C15_GatedWitness ==
    /\ resp.op = "get_my_analytics"
    /\ resp.token # Null
    /\ resp.token.key = "SECRET_KEY"
    /\ resp.token.claims.exp < now
    /\ resp.status = 401

------------------------------------------------------------------------------
(* Student statistics: get_student_analytics over every table of at most     *)
(* MaxRecords score records                                                   *)

MaxRecords == 2

\* The ids of the rows a table is filled with, in the order of their dates
RecordIds == <<"s1", "s2", "s3", "s4">>

\* before_score and after_score of a record: 80 -> 85.33 and 90 -> 85
ScorePairs == {<<8000, 8533>>, <<9000, 8500>>}

\* The tables of n score records: each of a student and a subject, with a
\* pair of scores, one or two lessons, and the n-th date
ScoreTables(n) ==
    {[i \in {RecordIds[k] : k \in 1..n} |->
         LET k == CHOOSE k \in 1..n : RecordIds[k] = i IN
         ScoreRow(i, f[k].student_id, "u1", f[k].subject, f[k].scores[1], f[k].scores[2],
                  f[k].lesson_count, k)] :
       f \in [1..n -> [student_id : {"u2", "u3"}, subject : Subjects,
                       scores : ScorePairs, lesson_count : {1, 2}]]}

InitStu ==
    /\ now = 0
    /\ jumps = 0
    /\ hist = HistStart
    /\ sameKeys = FALSE
    /\ users = AnalyticsUsers
    /\ keeps = {"access"}
    /\ wallet = {}
    /\ resp = [op |-> "start"]
    /\ req = [w \in Workers |-> Idle]
    /\ obs = [id \in UserIds |-> ObsStart]
    /\ appointments = EmptyTbl
    /\ reviews = EmptyTbl
    /\ \E n \in 0..MaxRecords : score_records \in ScoreTables(n)

NextStu ==
    \/ \E id \in {"u2", "u5"} : issue_tokens(id)
    \/ \E token \in Credentials, id \in {"u1", "u2", "u3"} : analytics_student(token, id)
    \/ \E token \in Credentials : get_my_analytics(token)

SpecStu == InitStu /\ [][NextStu]_vars

\* The records of a student
RecordsOf(student_id) == {i \in DOMAIN score_records : score_records[i].student_id = student_id}

\* after_score - before_score of each record
Gain == [i \in DOMAIN score_records |->
            score_records[i].after_score - score_records[i].before_score]

\* lesson_count of each record
Lessons == [i \in DOMAIN score_records |-> score_records[i].lesson_count]

\* get_student_analytics answered 200 with the analytics of a student
StudentAnalyticsReturned(r) ==
    /\ r.op \in {"get_student_analytics", "get_my_analytics"}
    /\ r.status = 200
    /\ IsStudentAnalytics(r.body)

\* What C16 says of the counts and of the per-subject entries
C16_CountsAndSubjects(body) ==
    LET sid == body.student_id
        subjects == {score_records[i].subject : i \in RecordsOf(sid)}
        RecordsIn(s) == {i \in RecordsOf(sid) : score_records[i].subject = s}
    IN  /\ body.subjects_count = Cardinality(subjects)
        /\ body.total_lessons = SumOf(Lessons, RecordsOf(sid))
        /\ DOMAIN body.improvements_by_subject = subjects
        /\ \A s \in subjects :
              /\ body.improvements_by_subject[s].record_count
                   = Cardinality(RecordsIn(s))
              /\ body.improvements_by_subject[s].total_improvement
                   = SumOf(Gain, RecordsIn(s))
        /\ RecordsOf(sid) = {} =>
              /\ body.total_improvement = 0
              /\ body.total_lessons = 0
              /\ body.subjects_count = 0
              /\ body.improvements_by_subject = <<>>

C16_WitnessEmpty ==
    /\ StudentAnalyticsReturned(resp)
    /\ RecordsOf(resp.body.student_id) = {}
    /\ score_records # EmptyTbl
    /\ resp.body.improvements_by_subject = <<>>

\* C16 witness: two records of one subject
C16_WitnessOneSubject ==
    /\ StudentAnalyticsReturned(resp)
    /\ resp.body.subjects_count = 1
    /\ \E s \in Subjects :
          Cardinality({i \in RecordsOf(resp.body.student_id) :
                          score_records[i].subject = s}) = 2

------------------------------------------------------------------------------
(* Teacher statistics: get_teacher_analytics over the tables of at most      *)
(* MaxRecords score records and at most MaxSeedReviews reviews. Which row     *)
(* has which id makes no difference to the handler, so of the tables that     *)
(* differ in that only, one is taken.                                         *)

MaxSeedReviews == 3

\* The ways to pick n kinds out of 0..kinds-1, in ascending order
Picks(n, kinds) ==
    {f \in [1..n -> 0..(kinds - 1)] : \A k \in 1..n : k < n => f[k] <= f[k + 1]}

\* The tables of n score records, each of one of eight kinds: of student u2
\* or u3, teacher u1 or u4, with one or two lessons
RecordTables(n) ==
    {[i \in {RecordIds[k] : k \in 1..n} |->
         LET k == CHOOSE k \in 1..n : RecordIds[k] = i IN
         ScoreRow(i, IF f[k] % 2 = 0 THEN "u2" ELSE "u3",
                  IF (f[k] \div 2) % 2 = 0 THEN "u1" ELSE "u4",
                  "Math", 8000, 8533, 1 + (f[k] \div 4), k)] :
       f \in Picks(n, 8)}

\* The tables of n reviews, each of one of four kinds: of teacher u1 or u4,
\* recommending or not
ReviewTables(n) ==
    {[i \in {RecordIds[k] : k \in 1..n} |->
         LET k == CHOOSE k \in 1..n : RecordIds[k] = i IN
         ReviewRow(i, None, IF f[k] < 2 THEN "u1" ELSE "u4", 5, f[k] % 2 = 0)] :
       f \in Picks(n, 4)}

InitTea ==
    /\ now = 0
    /\ jumps = 0
    /\ hist = HistStart
    /\ sameKeys = FALSE
    /\ users = AnalyticsUsers
    /\ keeps = {"access"}
    /\ wallet = {}
    /\ resp = [op |-> "start"]
    /\ req = [w \in Workers |-> Idle]
    /\ obs = [id \in UserIds |-> ObsStart]
    /\ appointments = EmptyTbl
    /\ \E n \in 0..MaxSeedReviews : reviews \in ReviewTables(n)
    /\ \E n \in 0..MaxRecords : score_records \in RecordTables(n)

NextTea ==
    \/ \E id \in {"u1", "u5"} : issue_tokens(id)
    \/ \E token \in Credentials, id \in {"u1", "u4"} : analytics_teacher(token, id)
    \/ \E token \in Credentials : get_my_analytics(token)

SpecTea == InitTea /\ [][NextTea]_vars

\* get_teacher_analytics answered 200 with the analytics of a teacher
TeacherAnalyticsReturned(r) ==
    /\ r.op \in {"get_teacher_analytics", "get_my_analytics"}
    /\ r.status = 200
    /\ IsTeacherAnalytics(r.body)

\* The reviews of a teacher, and the recommending ones among them
ReviewsOf(teacher_id) == {i \in DOMAIN reviews : reviews[i].teacher_id = teacher_id}
RecommendedOf(teacher_id) == {i \in ReviewsOf(teacher_id) : reviews[i].is_recommended}

C17_WitnessNoReviews ==
    /\ TeacherAnalyticsReturned(resp)
    /\ ReviewsOf(resp.body.teacher_id) = {}
    /\ reviews # EmptyTbl
    /\ resp.body.recommendation_rate = 0

------------------------------------------------------------------------------
(* Reviews, one request at a time: POST /teachers/{teacher_id}/reviews as one *)
(* step, over appointments of every status                                    *)

\* POST /teachers/{teacher_id}/reviews
create_teacher_review(teacher_id, review_data) ==
    LET teacher == IF teacher_id \in DOMAIN users THEN users[teacher_id] ELSE Null
        app == IF review_data.appointment_id \in DOMAIN appointments
               THEN appointments[review_data.appointment_id] ELSE Null
        code == IF teacher = Null \/ teacher.role # "teacher" THEN 404
                ELSE IF app = Null THEN 404
                ELSE IF app.teacher_id # teacher_id THEN 400
                ELSE IF get_by_appointment(reviews, review_data.appointment_id) # {}
                THEN 400
                ELSE 200
    IN  /\ resp' = [op |-> "create_teacher_review", teacher_id |-> teacher_id,
                    appointment_id |-> review_data.appointment_id, status |-> code]
        /\ IF code # 200
           THEN UNCHANGED <<reviews, users>>
           ELSE LET id == FreshId(reviews, ReviewIds)
                    db_review == [id |-> id, appointment_id |-> review_data.appointment_id,
                                  teacher_id |-> teacher_id,
                                  ratings |-> review_data.ratings,
                                  is_recommended |-> review_data.is_recommended]
                    stored == Put(reviews, id, db_review)
                    rating_stats == get_teacher_rating_stats(stored, teacher_id)
                IN  /\ reviews' = stored
                    /\ users' = update_teacher_rating(users, teacher_id,
                                                      rating_stats.overall,
                                                      rating_stats.count)
        /\ UNCHANGED <<now, jumps, keeps, sameKeys, score_records, hist, appointments, wallet,
                       req, obs>>

\* The ratings of a review: every dimension an integer from 1 to 5
FullRatings ==
    {[overall |-> 4, teaching |-> 3, patience |-> 5, communication |-> 4,
      effectiveness |-> 4],
     [overall |-> 5, teaching |-> 5, patience |-> 5, communication |-> 4,
      effectiveness |-> 3]}

\* The appointments of the review scenarios: three of teacher u1 and one of
\* teacher u3
ReviewedAppts == {"a1", "a2", "a3", "a4"}

\* create_sample_users: the teachers are seeded with a rating, a number of
\* reviews and detailed ratings (4.8, 25, 4.9 / 4.7 / 4.8 / 4.8)
RatedUsers ==
    [id \in {"u1", "u2", "u3"} |->
        IF id = "u2" THEN NewUser(id, "b@x", "student", get_password_hash("Pw2"))
        ELSE [NewUser(id, IF id = "u1" THEN "a@x" ELSE "c@x", "teacher",
                      get_password_hash("Pw1"))
                 EXCEPT !.rating = 48, !.reviews_count = 25]
             @@ [detailed_ratings |->
                    [teaching |-> 49, patience |-> 47, communication |-> 48,
                     effectiveness |-> 48]]]

InitRev ==
    /\ now = 0
    /\ jumps = 0
    /\ hist = HistStart
    /\ sameKeys = FALSE
    /\ users = RatedUsers
    /\ keeps = {}
    /\ wallet = {}
    /\ resp = [op |-> "start"]
    /\ req = [w \in Workers |-> Idle]
    /\ obs = [id \in UserIds |-> ObsStart]
    /\ \E st \in AppointmentStatus :
          appointments =
              [id \in ReviewedAppts |->
                  [id |-> id, teacher_id |-> IF id = "a4" THEN "u3" ELSE "u1",
                   student_name |-> "Ann", appointment_time |-> 0,
                   status |-> IF id = "a3" THEN st ELSE "completed"]]
    /\ reviews = EmptyTbl
    /\ score_records = EmptyTbl

NextRev ==
    \E teacher_id \in {"u1", "u2"},
       review_data \in [appointment_id : ReviewedAppts \cup {"a0"}, ratings : FullRatings,
                        is_recommended : {TRUE}] :
        create_teacher_review(teacher_id, review_data)

SpecRev == InitRev /\ [][NextRev]_vars

\* The mean of dimension k over the reviews of a teacher, rounded to one
\* decimal, in tenths: the tenth nearest to sum / count
IsMean(tbl, teacher_id, k, tenths) ==
    LET ids == {i \in DOMAIN tbl : tbl[i].teacher_id = teacher_id}
        diff == tenths * Cardinality(ids) - 10 * SumRatings(tbl, ids, k)
    IN  2 * diff <= Cardinality(ids) /\ 2 * (0 - diff) <= Cardinality(ids)

\* C18: after every create-review that succeeds the teacher's stored rating
\* is the mean of the overall ratings of all reviews of that teacher rounded
\* to one decimal, reviews_count is the number of those reviews, and the stored
\* detailed_ratings hold the one-decimal means of their teaching, patience,
\* communication and effectiveness ratings.
C18_RatingStatistics ==
    [][(resp'.op = "create_teacher_review" /\ resp'.status = 200) =>
         LET t == resp'.teacher_id IN
         /\ IsMean(reviews', t, "overall", users'[t].rating)
         /\ users'[t].reviews_count
              = Cardinality({i \in DOMAIN reviews' : reviews'[i].teacher_id = t})
         /\ \A k \in {"teaching", "patience", "communication", "effectiveness"} :
               IsMean(reviews', t, k, users'[t].detailed_ratings[k])]_vars

\* C18, the part that holds: rating and reviews_count are those of the
\* teacher's reviews, the new one included
C18_RatingAndCount ==
    [][(resp'.op = "create_teacher_review" /\ resp'.status = 200) =>
         LET t == resp'.teacher_id IN
         /\ IsMean(reviews', t, "overall", users'[t].rating)
         /\ users'[t].reviews_count
              = Cardinality({i \in DOMAIN reviews' : reviews'[i].teacher_id = t})]_vars

\* Three reviews of a teacher are stored whose overall ratings have a mean
\* with more than one decimal
C18_ThreeReviews ==
    /\ resp.op = "create_teacher_review" /\ resp.status = 200
    /\ Cardinality(DOMAIN reviews) = 3
    /\ SumRatings(reviews, DOMAIN reviews, "overall") % 3 # 0

\* C19: a Review is created only for an appointment whose status is
\* completed: a create-review request for an appointment in status pending,
\* confirmed or cancelled is rejected and stores no review.
C19_OnlyCompleted ==
    [][(/\ resp'.op = "create_teacher_review"
        /\ resp'.appointment_id \in DOMAIN appointments
        /\ appointments[resp'.appointment_id].status # "completed")
         => resp'.status # 200 /\ reviews' = reviews]_vars

\* C19, the part that holds: a review is stored only for an appointment that
\* exists, belongs to the teacher named and has no review yet
C19_OnlyOwnUnreviewed ==
    [][reviews' # reviews =>
         /\ resp'.status = 200
         /\ resp'.appointment_id \in DOMAIN appointments
         /\ appointments[resp'.appointment_id].teacher_id = resp'.teacher_id
         /\ get_by_appointment(reviews, resp'.appointment_id) = {}]_vars

------------------------------------------------------------------------------
(* The status of an appointment under update_appointment                      *)

\* C20: across any sequence of update_appointment calls the status of an
\* appointment changes only along pending -> confirmed, confirmed -> completed
\* or pending -> cancelled; the status of a completed appointment never
\* changes again.
C20_Transitions ==
    [][resp'.op = "update_appointment" =>
         \A id \in DOMAIN appointments :
            /\ id \in DOMAIN appointments'
            /\ \/ appointments'[id].status = appointments[id].status
               \/ <<appointments[id].status, appointments'[id].status>>
                     \in {<<"pending", "confirmed">>, <<"confirmed", "completed">>,
                          <<"pending", "cancelled">>}]_vars

\* C20, the second half alone: update_appointment leaves the status of a
\* completed appointment as it is
C20_CompletedIsFinal ==
    [][resp'.op = "update_appointment" =>
         \A id \in DOMAIN appointments :
            appointments[id].status = "completed"
              => id \in DOMAIN appointments' /\ appointments'[id].status = "completed"]_vars

\* C20, the part that holds: update_appointment changes no appointment but
\* the one it names, and none when that one is not stored
C20_OnlyTheNamed ==
    [][resp'.op = "update_appointment" =>
         /\ DOMAIN appointments' = DOMAIN appointments
         /\ \A id \in DOMAIN appointments :
               id # resp'.id => appointments'[id] = appointments[id]
         /\ resp'.status = 404 <=> resp'.id \notin DOMAIN appointments]_vars


-----------------------------------------------------------------------------
(* Accounts that are switched off: tokens exist for them, as generate_tokens *)
(* does not look at is_active, and are presented to the endpoints            *)

InitOff ==
    /\ now = 0
    /\ jumps = 0
    /\ hist = HistStart
    /\ sameKeys = FALSE
    /\ users = SampleUsers(TRUE, FALSE)
    /\ keeps = {"access", "refresh"}
    /\ wallet = {}
    /\ resp = [op |-> "start"]
    /\ req = [w \in Workers |-> Idle]
    /\ obs = [id \in UserIds |-> ObsStart]
    /\ appointments = EmptyTbl
    /\ reviews = EmptyTbl
    /\ score_records = EmptyTbl

NextOff ==
    \/ \E id \in {i \in DOMAIN users : ~users[i].is_active} : issue_tokens(id)
    \/ \E id \in DOMAIN users : login(users[id].email, IF id = "u1" THEN "Pw1" ELSE "Pw2")
    \/ \E token \in Presentable("refresh") : refresh_token(token)
    \/ \E token \in Presentable("access") : logout(token)
    \/ \E token \in Presentable("access") : get_my_analytics(token)
    \/ \E token \in Presentable("access") :
          LET password == IF token.claims.sub = "u2" THEN "Pw2" ELSE "Pw1"
          IN change_password(token, password, password)
    \/ Tick

SpecOff == InitOff /\ [][NextOff]_vars

\* C28: a user whose is_active is false gets no tokens from login and none
\* from refresh, and a request to an endpoint behind get_current_user that
\* carries an access token naming that user is refused, also when the token
\* was issued by this server and has not expired; the tokens that login and
\* refresh do return name a stored, active user.
C28_InactiveShutOut ==
    [][/\ (resp'.op \in {"login", "refresh"} /\ resp'.tokens # Null)
            => /\ UserActive(users', resp'.tokens.access_token)
               /\ UserActive(users', resp'.tokens.refresh_token)
       /\ \A id \in DOMAIN users :
            ~users[id].is_active
               => /\ (resp'.op = "login" /\ resp'.email = users[id].email)
                       => resp'.status # 200 /\ resp'.tokens = Null
                  /\ (resp'.op = "refresh" /\ resp'.token.claims.sub = id)
                       => resp'.status = 401 /\ resp'.tokens = Null
                  /\ (/\ resp'.op \in {"logout", "get_my_analytics", "change_password"}
                      /\ resp'.token.claims.sub = id)
                       => /\ resp'.status = 401
                          /\ users' = users]_vars

\* C28 witness: an access token this server issued, not yet expired, naming a
\* user that is stored and not active, was presented to logout and refused
C28_Witness ==
    /\ resp.op = "logout"
    /\ resp.status = 401
    /\ ValidAccessToken(resp.token, now)
    /\ now > 0
    /\ resp.token.claims.sub \in DOMAIN users
    /\ ~users[resp.token.claims.sub].is_active

\* The login of such a user with the correct password was refused
C28_WitnessLogin ==
    \E id \in DOMAIN users :
        /\ resp.op = "login" /\ resp.email = users[id].email
        /\ verify_password(resp.password, users[id].hashed_password)
        /\ ~users[id].is_active
        /\ resp.status = 401

\* The refresh token of such a user was refused before its expiry
C28_WitnessRefresh ==
    /\ resp.op = "refresh"
    /\ resp.status = 401
    /\ ValidRefreshToken(resp.token, now)
    /\ resp.token.claims.sub \in DOMAIN users
    /\ ~users[resp.token.claims.sub].is_active
    /\ now > days(1)

-----------------------------------------------------------------------------
(* The status with which an appointment is stored, under SpecAppt *)

\* C30: every appointment that create_appointment stores has status pending
\* when it is stored, whatever the request body contains.
C30_CreatedPending ==
    [][(resp'.op = "create_appointment" /\ resp'.status = 200)
         => appointments'[resp'.id].status = "pending"]_vars

\* What holds: the appointment is stored with the status the body names, and
\* with pending when the body names none
C30_StatusFromBody ==
    [][(resp'.op = "create_appointment" /\ resp'.status = 200)
         => /\ resp'.id \notin DOMAIN appointments
            /\ appointments'[resp'.id].status =
                  (IF resp'.body.status = None THEN "pending" ELSE resp'.body.status)]_vars

\* C30: an appointment has been stored as confirmed by its creation
C30_CreatedConfirmed ==
    /\ resp.op = "create_appointment"
    /\ resp.status = 200
    /\ resp.body.status = "confirmed"
    /\ appointments[resp.id].status = "confirmed"

====
